---------------------------- MODULE Spec2Model ----------------------------
(***************************************************************************)
(* A model of riscy, a userspace interpreter for RV32IMFD binaries.        *)
(*                                                                         *)
(* Representation.  TLC's integers are 32-bit, so every 32-bit quantity of *)
(* the program (i32 and u32 alike) is held as the signed number with the   *)
(* same bit pattern, in -2^31 .. 2^31-1.  A u32 whose top bit is set is    *)
(* therefore a negative number here; the operators below that model u32    *)
(* arithmetic (comparison, shifts, field extraction) interpret the pattern *)
(* as the source does.  Arithmetic that could leave the 32-bit range is    *)
(* carried out on 16-bit halves.                                           *)
(*                                                                         *)
(* The host is taken to be a 64-bit little-endian machine (usize is 64     *)
(* bits, so `addr as usize + len` never wraps), and the memory strategy is *)
(* the default one of main.rs, UnalignedMemReader.                         *)
(*                                                                         *)
(* Instruction records carry the variant names as core.rs spells them      *)
(* (Fadd_s, Fence_i, ...).                                                 *)
(***************************************************************************)
EXTENDS Integers, Sequences, FiniteSets, TLC

(***************************************************************************)
(* Bit-level helpers: Rust's integer operators on 32-bit patterns.         *)
(***************************************************************************)
Pow2(n) == 2 ^ n

I32 == (0 - 2147483647 - 1) .. 2147483647

\* (x >> lo) & (2^width - 1) for a u32 pattern x; lo + width <= 32.
bits(x, lo, width) ==
    IF lo = 31 THEN (IF x < 0 THEN 1 ELSE 0)
    ELSE (x \div Pow2(lo)) % Pow2(width)

\* The 32-bit pattern whose upper half is hi and lower half is lo (0..65535 each).
from_halves(hi, lo) ==
    IF hi >= 32768 THEN (hi - 65536) * 65536 + lo ELSE hi * 65536 + lo

lo16(x) == x % 65536
hi16(x) == (x \div 65536) % 65536

\* i32::wrapping_add / u32::wrapping_add: the low 32 bits of a + b.
wrapping_add(a, b) ==
    LET l == lo16(a) + lo16(b)
        h == hi16(a) + hi16(b) + (l \div 65536)
    IN  from_halves(h % 65536, l % 65536)

\* i32::wrapping_sub: a + (!b) + 1.
wrapping_sub(a, b) ==
    LET l == lo16(a) + (65535 - lo16(b)) + 1
        h == hi16(a) + (65535 - hi16(b)) + (l \div 65536)
    IN  from_halves(h % 65536, l % 65536)

\* A comparison of the two patterns as signed values.
lt_signed(a, b) == a < b

\* (a as u32) < (b as u32)
ult(a, b) == IF (a < 0) = (b < 0) THEN a < b ELSE b < 0

\* Bitwise operators on 32-bit patterns, one bit at a time.
RECURSIVE bitop(_, _, _, _)
bitop(f, a, b, n) ==
    IF n = 0 THEN 0
    ELSE LET x == a % 2
             y == b % 2
             r == CASE f = "and" -> x * y
                    [] f = "or"  -> IF x + y > 0 THEN 1 ELSE 0
                    [] f = "xor" -> (x + y) % 2
         IN  r + 2 * bitop(f, a \div 2, b \div 2, n - 1)

bitop32(f, a, b) ==
    from_halves(bitop(f, hi16(a), hi16(b), 16), bitop(f, lo16(a), lo16(b), 16))

\* (a as u32) << sh, sh in 0..31
shl32(a, sh) ==
    IF sh = 0 THEN a
    ELSE IF sh >= 16
         THEN from_halves((lo16(a) * Pow2(sh - 16)) % 65536, 0)
         ELSE LET l == lo16(a) * Pow2(sh)
                  h == hi16(a) * Pow2(sh) + (l \div 65536)
              IN  from_halves(h % 65536, l % 65536)

\* (a as u32) >> sh, sh in 0..31: zeros enter from the left.
shr32(a, sh) ==
    IF sh = 0 THEN a
    ELSE LET h == IF a >= 0 THEN a \div 2 ELSE (a \div 2) + 1073741824 + 1073741824
         IN  h \div Pow2(sh - 1)

\* A right shift of a signed value that fills with zeros.
sar32_zero_fill(a, sh) == shr32(a, sh)

\* (a as i32) >> sh, sh in 0..31: the sign bit is replicated.
sar32(a, sh) == IF sh = 0 THEN a ELSE (a \div 2) \div Pow2(sh - 1)

\* The bytes of a 32-bit pattern, least significant first, and back.
le_bytes32(x) ==
    << lo16(x) % 256, lo16(x) \div 256, hi16(x) % 256, hi16(x) \div 256 >>

from_le32(b) == from_halves(b[3] + 256 * b[4], b[1] + 256 * b[2])

\* The 64-bit product of two u32 patterns as eight bytes, least significant
\* first (long multiplication on bytes).
RECURSIVE mul_bytes(_, _, _, _)
mul_bytes(x, y, k, carry) ==
    IF k = 8 THEN << >>
    ELSE LET col == {i \in 1 .. 4 : k + 2 - i \in 1 .. 4}
             RECURSIVE sum(_)
             sum(S) == IF S = {} THEN 0
                       ELSE LET i == CHOOSE j \in S : TRUE
                            IN  x[i] * y[k + 2 - i] + sum(S \ {i})
             t == sum(col) + carry
         IN  << t % 256 >> \o mul_bytes(x, y, k + 1, t \div 256)

widening_mul(a, b) == mul_bytes(le_bytes32(a), le_bytes32(b), 0, 0)

\* i32::wrapping_mul: the low 32 bits of the product.
wrapping_mul(a, b) == from_le32(SubSeq(widening_mul(a, b), 1, 4))

\* ((a as u32 as u64) * (b as u32 as u64) >> 32) as i32
mulhu(a, b) == from_le32(SubSeq(widening_mul(a, b), 5, 8))

\* The upper word of a product of the two patterns taken as unsigned.
mulh_unsigned(a, b) == mulhu(a, b)

\* ((a as i64).wrapping_mul(b as i64) >> 32) as i32.  A negative a is
\* a_u - 2^32, so the signed product is the unsigned one less 2^32 * b_u
\* (and less 2^32 * a_u for a negative b) modulo 2^64.
mulh(a, b) ==
    wrapping_sub(wrapping_sub(mulhu(a, b), IF a < 0 THEN b ELSE 0),
                 IF b < 0 THEN a ELSE 0)

\* (((a as i64) as i128).wrapping_mul((b as u32 as u64) as i128) >> 32) as i32
mulhsu(a, b) == wrapping_sub(mulhu(a, b), IF a < 0 THEN b ELSE 0)

\* i32::wrapping_div and i32::wrapping_rem, divisor nonzero: the quotient
\* rounds towards zero; i32::MIN / -1 wraps to i32::MIN with remainder 0.
i32_quot(a, b) ==
    LET MIN == 0 - 2147483647 - 1
        \* a / m rounded towards zero, m > 0
        pos(m) == IF a < 0 /\ a % m # 0 THEN (a \div m) + 1 ELSE a \div m
    IN  IF b > 0 THEN pos(b)
        ELSE IF b = MIN THEN (IF a = MIN THEN 1 ELSE 0)
        ELSE IF a = MIN /\ b = 0 - 1 THEN MIN
        ELSE 0 - pos(0 - b)

\* a quotient rounded towards minus infinity instead
floor_div(a, b) ==
    IF b > 0 THEN a \div b
    ELSE IF b = 0 - 2147483647 - 1 THEN (IF a > 0 THEN 0 - 1 ELSE IF a = b THEN 1 ELSE 0)
    ELSE IF a = 0 - 2147483647 - 1 /\ b = 0 - 1 THEN a
    ELSE 0 - ((a \div (0 - b)) + (IF a % (0 - b) # 0 THEN 1 ELSE 0))

wrapping_div(a, b) == i32_quot(a, b)

\* a remainder that is never negative instead
rem_euclid(a, b) ==
    IF b > 0 THEN a % b
    ELSE IF b = 0 - 2147483647 - 1 THEN (IF a = b THEN 0 ELSE a)
    ELSE a % (0 - b)

wrapping_rem(a, b) ==
    IF a = 0 - 2147483647 - 1 /\ b = 0 - 1 THEN 0
    ELSE a - b * i32_quot(a, b)

\* (a as u32) / (b as u32), b nonzero, as << quotient, remainder >> patterns.
\* With a >= 2^31 > b the dividend is halved first: a = 2 * h + l.
u32_divrem(a, b) ==
    IF b < 0 THEN (IF ult(a, b) THEN << 0, a >> ELSE << 1, wrapping_sub(a, b) >>)
    ELSE IF a >= 0 THEN << a \div b, a % b >>
    ELSE LET h  == shr32(a, 1)
             l  == a % 2
             q1 == h \div b
             r1 == h % b
             up == r1 + l >= b - r1
             r  == IF up THEN r1 - (b - r1) + l ELSE r1 + r1 + l
             c  == IF up THEN 1 ELSE 0
             q  == IF q1 >= 1073741824
                   THEN ((q1 - 1073741824) * 2 + c - 2147483647) - 1
                   ELSE q1 * 2 + c
         IN  << q, r >>

u32_div(a, b) == u32_divrem(a, b)[1]
u32_rem(a, b) == u32_divrem(a, b)[2]


(***************************************************************************)
(* The decoder (instruction.rs).  A word is a 32-bit pattern; the result   *)
(* is a record [op |-> variant, fields...] holding exactly the fields the  *)
(* variant has in the source.                                              *)
(***************************************************************************)

\* The low n bits of val with zeros above them.
zero_extend(val, n) == val % Pow2(n)

\* ((val << (32 - n)) as i32) >> (32 - n): the low n bits of val, sign-extended.
sign_extend(val, n) ==
    LET v == val % Pow2(n)
    IN  IF v >= Pow2(n - 1) THEN v - Pow2(n) ELSE v

Unknown(inst) == [op |-> "Unknown", val |-> inst]

\* (inst & 0xfffff000) as i32
imm_u(inst) == inst - (inst % 4096)

\* sign_extend((inst >> 20) & 0xfff, 12)
imm_i(inst) == sign_extend(bits(inst, 20, 12), 12)

imm_j(inst) ==
    sign_extend(bits(inst, 31, 1) * Pow2(20) + bits(inst, 12, 8) * Pow2(12)
                + bits(inst, 20, 1) * Pow2(11) + bits(inst, 21, 10) * 2, 21)

imm_b(inst) ==
    sign_extend(bits(inst, 31, 1) * Pow2(12) + bits(inst, 7, 1) * Pow2(11)
                + bits(inst, 25, 6) * Pow2(5) + bits(inst, 8, 4) * 2, 13)

\* sign_extend((((inst >> 25) & 0x7f) << 5) | ((inst >> 7) & 0x1f), 12)
imm_s(inst) == sign_extend(bits(inst, 25, 7) * 32 + bits(inst, 7, 5), 12)

f_rd(inst)     == bits(inst, 7, 5)
f_funct3(inst) == bits(inst, 12, 3)
f_rs1(inst)    == bits(inst, 15, 5)
f_rs2(inst)    == bits(inst, 20, 5)
f_sz(inst)     == bits(inst, 25, 2)
f_rs3(inst)    == bits(inst, 27, 5)
f_funct7(inst) == bits(inst, 25, 7)

I_rec(name, inst) == [op |-> name, rd |-> f_rd(inst), rs1 |-> f_rs1(inst), imm |-> imm_i(inst)]
R_rec(name, inst) == [op |-> name, rd |-> f_rd(inst), rs1 |-> f_rs1(inst), rs2 |-> f_rs2(inst)]
R2_rec(name, inst) == [op |-> name, rd |-> f_rd(inst), rs1 |-> f_rs1(inst)]
Rm_rec(name, inst) ==
    [op |-> name, rd |-> f_rd(inst), rs1 |-> f_rs1(inst), rs2 |-> f_rs2(inst),
     rm |-> f_funct3(inst)]
R4_rec(name, inst) ==
    [op |-> name, rd |-> f_rd(inst), rs1 |-> f_rs1(inst), rs2 |-> f_rs2(inst),
     rs3 |-> f_rs3(inst), rm |-> f_funct3(inst)]
B_rec(name, inst) == [op |-> name, rs1 |-> f_rs1(inst), rs2 |-> f_rs2(inst), imm |-> imm_b(inst)]
S_rec(name, inst) == [op |-> name, rs1 |-> f_rs1(inst), rs2 |-> f_rs2(inst), imm |-> imm_s(inst)]

decode_branch(inst) ==
    LET funct3 == f_funct3(inst)
    IN  CASE funct3 = 0 -> B_rec("Beq", inst)
          [] funct3 = 1 -> B_rec("Bne", inst)
          [] funct3 = 4 -> B_rec("Blt", inst)
          [] funct3 = 5 -> B_rec("Bge", inst)
          [] funct3 = 6 -> B_rec("Bltu", inst)
          [] funct3 = 7 -> B_rec("Bgeu", inst)
          [] OTHER -> Unknown(inst)

decode_load(inst) ==
    LET funct3 == f_funct3(inst)
    IN  CASE funct3 = 0 -> I_rec("Lb", inst)
          [] funct3 = 1 -> I_rec("Lh", inst)
          [] funct3 = 2 -> I_rec("Lw", inst)
          [] funct3 = 4 -> I_rec("Lbu", inst)
          [] funct3 = 5 -> I_rec("Lhu", inst)
          [] OTHER -> Unknown(inst)

decode_store(inst) ==
    LET funct3 == f_funct3(inst)
    IN  CASE funct3 = 0 -> S_rec("Sb", inst)
          [] funct3 = 1 -> S_rec("Sh", inst)
          [] funct3 = 2 -> S_rec("Sw", inst)
          [] OTHER -> Unknown(inst)

Shamt_rec(name, inst) ==
    [op |-> name, rd |-> f_rd(inst), rs1 |-> f_rs1(inst), shamt |-> bits(inst, 20, 5)]

decode_op_imm(inst) ==
    LET funct3 == f_funct3(inst)
        funct7 == bits(inst, 25, 7)
    IN  CASE funct3 = 0 -> I_rec("Addi", inst)
          [] funct3 = 2 -> I_rec("Slti", inst)
          [] funct3 = 3 -> I_rec("Sltiu", inst)
          [] funct3 = 4 -> I_rec("Xori", inst)
          [] funct3 = 6 -> I_rec("Ori", inst)
          [] funct3 = 7 -> I_rec("Andi", inst)
          [] funct3 = 1 -> Shamt_rec("Slli", inst)
          [] funct3 = 5 ->
               IF funct7 = 0 THEN Shamt_rec("Srli", inst)
               ELSE IF funct7 = 32 THEN Shamt_rec("Srai", inst)
               ELSE Unknown(inst)

decode_op(inst) ==
    LET funct3 == f_funct3(inst)
        funct7 == f_funct7(inst)
    IN  IF funct7 = 1
        THEN CASE funct3 = 0 -> R_rec("Mul", inst)
               [] funct3 = 1 -> R_rec("Mulh", inst)
               [] funct3 = 2 -> R_rec("Mulhsu", inst)
               [] funct3 = 3 -> R_rec("Mulhu", inst)
               [] funct3 = 4 -> R_rec("Div", inst)
               [] funct3 = 5 -> R_rec("Divu", inst)
               [] funct3 = 6 -> R_rec("Rem", inst)
               [] funct3 = 7 -> R_rec("Remu", inst)
        ELSE CASE funct3 = 0 ->
                    IF funct7 = 0 THEN R_rec("Add", inst)
                    ELSE IF funct7 = 32 THEN R_rec("Sub", inst)
                    ELSE Unknown(inst)
               [] funct3 = 1 -> R_rec("Sll", inst)
               [] funct3 = 2 -> R_rec("Slt", inst)
               [] funct3 = 3 -> R_rec("Sltu", inst)
               [] funct3 = 4 -> R_rec("Xor", inst)
               [] funct3 = 5 ->
                    IF funct7 = 0 THEN R_rec("Srl", inst)
                    ELSE IF funct7 = 32 THEN R_rec("Sra", inst)
                    ELSE Unknown(inst)
               [] funct3 = 6 -> R_rec("Or", inst)
               [] funct3 = 7 -> R_rec("And", inst)

decode_fence(inst) ==
    LET funct3 == f_funct3(inst)
    IN  IF funct3 = 0
        THEN [op |-> "Fence", pred |-> bits(inst, 24, 4), succ |-> bits(inst, 20, 4)]
        ELSE IF funct3 = 1 THEN [op |-> "Fence_i"]
        ELSE Unknown(inst)

\* match (funct3, imm) { (0, 0) => Ecall, (0, 1) => Ebreak, (2, 2) => Frrm,
\*                       (2, 1) => Fsrm, _ => Unknown }: the first component of
\* each pattern is matched against funct3 and the second against imm.
decode_system(inst) ==
    LET funct3 == f_funct3(inst)
        imm    == bits(inst, 20, 12)
    IN  CASE funct3 = 0 /\ imm = 0 -> [op |-> "Ecall"]
          [] funct3 = 0 /\ imm = 1 -> [op |-> "Ebreak"]
          [] funct3 = 2 /\ imm = 2 -> [op |-> "Frrm", rd |-> f_rd(inst)]
          [] funct3 = 2 /\ imm = 1 -> [op |-> "Fsrm", rd |-> f_rd(inst), rs1 |-> f_rs1(inst)]
          [] OTHER -> Unknown(inst)

\* opcode 0x53, selected by funct7 (guards on rs2 where the source has them).
decode_op_fp(inst) ==
    LET funct3 == f_funct3(inst)
        funct7 == f_funct7(inst)
        rs2    == f_rs2(inst)
        Rm2(name) == [op |-> name, rd |-> f_rd(inst), rs1 |-> f_rs1(inst), rm |-> funct3]
    IN  CASE funct7 = 0 -> Rm_rec("Fadd_s", inst)
          [] funct7 = 44 /\ rs2 = 0 -> Rm2("Fsqrt_s")
          [] funct7 = 45 /\ rs2 = 0 -> Rm2("Fsqrt_s")
          [] funct7 = 4 -> Rm_rec("Fsub_s", inst)
          [] funct7 = 8 -> Rm_rec("Fmul_s", inst)
          [] funct7 = 12 -> Rm_rec("Fdiv_s", inst)
          [] funct7 = 16 ->
               CASE funct3 = 0 -> R_rec("Fsgnj_s", inst)
                 [] funct3 = 1 -> R_rec("Fsgnjn_s", inst)
                 [] funct3 = 2 -> R_rec("Fsgnjx_s", inst)
                 [] OTHER -> Unknown(inst)
          [] funct7 = 17 ->
               CASE funct3 = 0 -> R_rec("Fsgnj_d", inst)
                 [] funct3 = 1 -> R_rec("Fsgnjn_d", inst)
                 [] funct3 = 2 -> R_rec("Fsgnjx_d", inst)
                 [] OTHER -> Unknown(inst)
          [] funct7 = 20 ->
               CASE funct3 = 0 -> R_rec("Fmin_s", inst)
                 [] funct3 = 1 -> R_rec("Fmax_s", inst)
                 [] OTHER -> Unknown(inst)
          [] funct7 = 21 ->
               CASE funct3 = 0 -> R_rec("Fmin_d", inst)
                 [] funct3 = 1 -> R_rec("Fmax_d", inst)
                 [] OTHER -> Unknown(inst)
          [] funct7 = 80 ->
               CASE funct3 = 0 -> R_rec("Fle_s", inst)
                 [] funct3 = 1 -> R_rec("Flt_s", inst)
                 [] funct3 = 2 -> R_rec("Feq_s", inst)
                 [] OTHER -> Unknown(inst)
          [] funct7 = 1 -> Rm_rec("Fadd_d", inst)
          [] funct7 = 5 -> Rm_rec("Fsub_d", inst)
          [] funct7 = 9 -> Rm_rec("Fmul_d", inst)
          [] funct7 = 13 -> Rm_rec("Fdiv_d", inst)
          [] funct7 = 81 ->
               CASE funct3 = 0 -> R_rec("Fle_d", inst)
                 [] funct3 = 1 -> R_rec("Flt_d", inst)
                 [] funct3 = 2 -> R_rec("Feq_d", inst)
                 [] OTHER -> Unknown(inst)
          [] funct7 = 96 ->
               CASE rs2 = 0 -> R2_rec("Fcvt_w_s", inst)
                 [] rs2 = 1 -> R2_rec("Fcvt_wu_s", inst)
                 [] OTHER -> Unknown(inst)
          [] funct7 = 104 ->
               CASE rs2 = 0 -> R2_rec("Fcvt_s_w", inst)
                 [] rs2 = 1 -> R2_rec("Fcvt_s_wu", inst)
                 [] OTHER -> Unknown(inst)
          [] funct7 = 97 ->
               CASE rs2 = 0 -> R2_rec("Fcvt_w_d", inst)
                 [] rs2 = 1 -> R2_rec("Fcvt_wu_d", inst)
                 [] OTHER -> Unknown(inst)
          [] funct7 = 105 ->
               CASE rs2 = 0 -> R2_rec("Fcvt_d_w", inst)
                 [] rs2 = 1 -> R2_rec("Fcvt_d_wu", inst)
                 [] OTHER -> Unknown(inst)
          [] funct7 = 120 -> R2_rec("Fmv_w_s", inst)
          [] funct7 = 121 -> R2_rec("Fmv_x_d", inst)
          [] funct7 = 112 ->
               CASE funct3 = 0 -> R2_rec("Fmv_s_w", inst)
                 [] funct3 = 1 -> R2_rec("Fclass_s", inst)
                 [] OTHER -> Unknown(inst)
          [] funct7 = 113 ->
               CASE funct3 = 0 -> R2_rec("Fmv_d_x", inst)
                 [] funct3 = 1 -> R2_rec("Fclass_d", inst)
                 [] OTHER -> Unknown(inst)
          [] funct7 = 125 -> R2_rec("Fcvt_wu_d", inst)
          [] funct7 = 32 -> R2_rec("Fcvt_s_d", inst)
          [] funct7 = 33 -> R2_rec("Fcvt_d_s", inst)
          [] OTHER -> Unknown(inst)

\* opcodes 0x43, 0x47, 0x4F, 0x4B: sz selects the single or double variant.
decode_fused(inst, single, double) ==
    LET sz == f_sz(inst)
    IN  CASE sz = 0 -> R4_rec(single, inst)
          [] sz = 1 -> R4_rec(double, inst)
          [] OTHER -> Unknown(inst)

decode_fp_load(inst) ==
    LET funct3 == f_funct3(inst)
        imm    == sign_extend(bits(inst, 20, 12), 12)
        rec(name) == [op |-> name, rd |-> f_rd(inst), rs1 |-> f_rs1(inst), imm |-> imm]
    IN  CASE funct3 = 2 -> rec("Flw")
          [] funct3 = 3 -> rec("Fld")
          [] OTHER -> Unknown(inst)

decode_fp_store(inst) ==
    LET funct3 == f_funct3(inst)
        imm    == sign_extend(bits(inst, 25, 7) * 32 + bits(inst, 7, 5), 12)
        rec(name) == [op |-> name, rs1 |-> f_rs1(inst), rs2 |-> f_rs2(inst), imm |-> imm]
    IN  CASE funct3 = 2 -> rec("Fsw")
          [] funct3 = 3 -> rec("Fsd")
          [] OTHER -> Unknown(inst)

\* Instruction::decode
decode(inst) ==
    LET opcode == bits(inst, 0, 7)
    IN  CASE opcode = 55 -> [op |-> "Lui", rd |-> f_rd(inst), imm |-> imm_u(inst)]
          [] opcode = 23 -> [op |-> "Auipc", rd |-> f_rd(inst), imm |-> imm_u(inst)]
          [] opcode = 111 -> [op |-> "Jal", rd |-> f_rd(inst), imm |-> imm_j(inst)]
          [] opcode = 103 ->
               IF f_funct3(inst) = 0 THEN I_rec("Jalr", inst) ELSE Unknown(inst)
          [] opcode = 99 -> decode_branch(inst)
          [] opcode = 3 -> decode_load(inst)
          [] opcode = 35 -> decode_store(inst)
          [] opcode = 19 -> decode_op_imm(inst)
          [] opcode = 51 -> decode_op(inst)
          [] opcode = 15 -> decode_fence(inst)
          [] opcode = 115 -> decode_system(inst)
          [] opcode = 83 -> decode_op_fp(inst)
          [] opcode = 67 -> decode_fused(inst, "Fmadd_s", "Fmadd_d")
          [] opcode = 71 -> decode_fused(inst, "Fmsub_s", "Fmsub_d")
          [] opcode = 79 -> decode_fused(inst, "Fnmadd_s", "Fnmadd_d")
          [] opcode = 75 -> decode_fused(inst, "Fnmsub_s", "Fnmsub_d")
          [] opcode = 7 -> decode_fp_load(inst)
          [] opcode = 39 -> decode_fp_store(inst)
          [] OTHER -> Unknown(inst)

(***************************************************************************)
(* State: the fields of Core32 (core.rs), the locals of Core32::run that   *)
(* live across loop iterations, and what the process has done so far.      *)
(***************************************************************************)
VARIABLES
    pc,            \* Core32.pc
    registers,     \* Core32.gp_regfile.registers: [0..31 -> i32]
    fp_registers,  \* Core32.fp_regfile.registers: [0..31 -> [lo, hi]], the two
                   \* 32-bit halves of the 8-byte union FpReg
    fcsr,          \* Core32.fp_regfile.fcsr
    data,          \* the arena Memory.data: [0..size-1 -> 0..255]
    size,          \* Memory.size
    text,          \* Core32.text: [vaddr, data], data a sequence of bytes
    ins_cache,     \* run's ins_cache: a sequence of instruction records
    wk,            \* the intercept table: wk_memmove .. wk_sin
    status,        \* "new": constructed; "running": inside run's loop;
                   \* "returned": run returned a RunInfo; "exited": main
                   \* returned the exit code; "panicked": a Rust panic ended
                   \* the process; "crashed": the host killed the process
                   \* (undefined behaviour that faults); "astray": the loop
                   \* went on with a record read outside the cache
    return_code,   \* RunInfo.return_code, once run has returned
    exit_code,     \* the process exit code, once main has returned
    host_oob,      \* TRUE once host memory outside the arena was read or written
    host_calls,    \* how many host routines (intercepts) have run
    steps,         \* how many loop iterations have run
    last           \* the loop iteration just run: the pc it fetched at, the
                   \* record it executed, the arm of run's match it took, the
                   \* host routine it ran

vars == << pc, registers, fp_registers, fcsr, data, size, text, ins_cache, wk,
           status, return_code, exit_code, host_oob, host_calls, steps, last >>

Byte == 0 .. 255

(***************************************************************************)
(* Register files                                                          *)
(***************************************************************************)

\* Regfile::read
read(regs, idx) == IF idx = 0 THEN 0 ELSE regs[idx]

\* A Regfile::write that has lost its test for index 0.
write_unguarded(regs, idx, value) == [regs EXCEPT ![idx] = value]

\* Regfile::write
write(regs, idx, value) ==
    IF idx # 0 THEN [regs EXCEPT ![idx] = value] ELSE regs

\* Regfile::new: every entry 0xBEBE
Regfile_new == [i \in 0 .. 31 |-> 48830]

\* FpRegfile::new: every entry the u64 0xBEBEBEBE, rounding mode RNE, flags clear
FpRegfile_new == [i \in 0 .. 31 |-> [lo |-> from_halves(48830, 48830), hi |-> 0]]

Fcsr_default ==
    [rm |-> 0, nv |-> FALSE, dz |-> FALSE, of |-> FALSE, uf |-> FALSE, nx |-> FALSE]

\* FpRegfile::read_u32 / read_single: the low four bytes of the union
read_u32(fregs, idx) == fregs[idx].lo

\* A write that replaces every NaN by the canonical quiet NaN 0x7FC00000.
write_u32_canonical(fregs, idx, value) ==
    [fregs EXCEPT ![idx].lo = IF bits(value, 23, 8) = 255 /\ value % 8388608 # 0
                              THEN 2143289344 ELSE value]

\* FpRegfile::write_u32 / write_single: the low four bytes are replaced
write_u32(fregs, idx, value) == [fregs EXCEPT ![idx].lo = value]

\* FpRegfile::read_double / write_double: all eight bytes
read_double(fregs, idx) == fregs[idx]
write_double(fregs, idx, value) == [fregs EXCEPT ![idx] = value]

\* Register::to_idx for the registers the engine names
Ra == 1
Sp == 2
A(i) == i + 10

\* impl TryFrom<i32> for RoundingMode: the values that convert
RoundingMode_ok(value) == value \in {0, 1, 2, 3, 4, 7}

(***************************************************************************)
(* Memory                                                                  *)
(***************************************************************************)

\* An assertion off by one: the last byte of the range may lie outside.
in_arena_loose(addr, len) == addr >= 0 /\ len >= 0 /\ addr <= size - len + 1

\* The assertion of Memory::load, store and get_buf:
\* addr.as_usize() + len <= self.size, addr and len being u32 (a pattern
\* with the top bit set is a u32 of 2^31 or more, beyond any arena here).
in_arena(addr, len) == addr >= 0 /\ len >= 0 /\ addr <= size - len

\* Reader::read::<T>: the len bytes at addr, first byte first (a byte beyond
\* the arena is host memory, which the assertions keep every caller from)
read_bytes(mem, addr, len) ==
    [i \in 1 .. len |-> IF addr + i - 1 \in DOMAIN mem THEN mem[addr + i - 1] ELSE 0]

\* A write that puts a zero byte behind the bytes it was given.
write_bytes_terminated(mem, addr, bs) ==
    [a \in DOMAIN mem |->
        IF a >= addr /\ a < addr + Len(bs) THEN bs[a - addr + 1]
        ELSE IF a = addr + Len(bs) THEN 0 ELSE mem[a]]

\* Reader::write::<T>: bs replaces the bytes at addr; bytes of the range that
\* fall outside the arena are not part of mem
write_bytes(mem, addr, bs) ==
    [a \in DOMAIN mem |->
        IF a >= addr /\ a < addr + Len(bs) THEN bs[a - addr + 1] ELSE mem[a]]

\* An integer of 1 or 2 bytes with the first byte the most significant.
from_be(bs) == IF Len(bs) = 1 THEN bs[1] ELSE bs[2] + 256 * bs[1]

\* little-endian integers of 1 and 2 bytes
from_le(bs) == IF Len(bs) = 1 THEN bs[1] ELSE bs[1] + 256 * bs[2]

\* a 32-bit load as an i32 pattern
load32(mem, addr) == from_le32(read_bytes(mem, addr, 4))

(***************************************************************************)
(* Core32::exec.  The result is the set of outcomes the instruction can    *)
(* have: a record of the ExecResult (kind, target) and of the register     *)
(* files, FCSR and arena as exec leaves them.  kind "Panic" is a Rust      *)
(* panic inside exec (a failed assertion, expect, todo!, panic!): the      *)
(* record then holds the state as it was when the panic was raised.  More  *)
(* than one outcome arises only from the host (the I/O syscalls).          *)
(***************************************************************************)
Res(kind, target, regs, fregs, csr, mem) ==
    [kind |-> kind, target |-> target, regs |-> regs, fregs |-> fregs,
     csr |-> csr, mem |-> mem]

\* the instruction wrote integer register rd and falls through
WriteRd(rd, value) ==
    {Res("Continue", 0, write(registers, rd, value), fp_registers, fcsr, data)}

WriteFp(fregs) == {Res("Continue", 0, registers, fregs, fcsr, data)}

\* An instruction without effect that reports -38 (ENOSYS) in a0.
Nothing_enosys ==
    {Res("Continue", 0, write(registers, A(0), 0 - 38), fp_registers, fcsr, data)}

Nothing == {Res("Continue", 0, registers, fp_registers, fcsr, data)}

\* A panic that is swallowed: the instruction does nothing and falls through.
Panic_swallowed == {Res("Continue", 0, registers, fp_registers, fcsr, data)}

Panic == {Res("Panic", 0, registers, fp_registers, fcsr, data)}

\* (reg.read(rs1) as u32).wrapping_add(imm as u32)
eff_addr(instr) == wrapping_add(read(registers, instr.rs1), instr.imm)

\* i8 as i32 and i16 as i32
sext8(b) == IF b >= 128 THEN b - 256 ELSE b
sext16(h) == IF h >= 32768 THEN h - 65536 ELSE h

\* Lb .. Lhu, Flw, Fld: Memory::load::<T> and the register write
exec_load(instr) ==
    LET addr == eff_addr(instr)
        len  == CASE instr.op \in {"Lb", "Lbu"} -> 1
                  [] instr.op \in {"Lh", "Lhu"} -> 2
                  [] instr.op \in {"Lw", "Flw"} -> 4
                  [] instr.op = "Fld" -> 8
        bs   == read_bytes(data, addr, len)
    IN  IF ~in_arena(addr, len) THEN Panic
        ELSE CASE instr.op = "Lb"  -> WriteRd(instr.rd, sext8(bs[1]))
               [] instr.op = "Lh"  -> WriteRd(instr.rd, sext16(from_le(bs)))
               [] instr.op = "Lw"  -> WriteRd(instr.rd, from_le32(bs))
               [] instr.op = "Lbu" -> WriteRd(instr.rd, bs[1])
               [] instr.op = "Lhu" -> WriteRd(instr.rd, from_le(bs))
               [] instr.op = "Flw" ->
                    WriteFp(write_u32(fp_registers, instr.rd, from_le32(bs)))
               [] instr.op = "Fld" ->
                    WriteFp(write_double(fp_registers, instr.rd,
                        [lo |-> from_le32(SubSeq(bs, 1, 4)),
                         hi |-> from_le32(SubSeq(bs, 5, 8))]))

\* A store that writes the whole word of rs2 whatever its width.
exec_store_word(instr) ==
    LET addr == eff_addr(instr)
        bs   == le_bytes32(read(registers, instr.rs2))
    IN  IF ~in_arena(addr, 4) THEN Panic
        ELSE {Res("Continue", 0, registers, fp_registers, fcsr,
                  write_bytes(data, addr, bs))}

\* Sb .. Sw, Fsw, Fsd: the bytes stored, then Memory::store::<T>
exec_store(instr) ==
    LET addr == eff_addr(instr)
        v    == read(registers, instr.rs2)
        f    == fp_registers[instr.rs2]
        bs   == CASE instr.op = "Sb"  -> << v % 256 >>
                  [] instr.op = "Sh"  -> << v % 256, (v \div 256) % 256 >>
                  [] instr.op = "Sw"  -> le_bytes32(v)
                  [] instr.op = "Fsw" -> le_bytes32(f.lo)
                  [] instr.op = "Fsd" -> le_bytes32(f.lo) \o le_bytes32(f.hi)
    IN  IF ~in_arena(addr, Len(bs)) THEN Panic
        ELSE {Res("Continue", 0, registers, fp_registers, fcsr,
                  write_bytes(data, addr, bs))}

\* the target of Jal (pc + imm) and of Jalr ((rs1 + imm) & !1)
\* A jalr target read from rs1 after the link register was written.
jump_target_linked(instr) ==
    IF instr.op = "Jal" THEN wrapping_add(pc, instr.imm)
    ELSE LET t == wrapping_add(read(write(registers, instr.rd, wrapping_add(pc, 4)),
                                    instr.rs1), instr.imm)
         IN  t - (t % 2)

\* A jalr target that keeps bit 0 of rs1 + imm.
jump_target_unmasked(instr) ==
    IF instr.op = "Jal" THEN wrapping_add(pc, instr.imm)
    ELSE wrapping_add(read(registers, instr.rs1), instr.imm)

jump_target(instr) ==
    IF instr.op = "Jal" THEN wrapping_add(pc, instr.imm)
    ELSE LET t == wrapping_add(read(registers, instr.rs1), instr.imm)
         IN  t - (t % 2)

\* Every jal and jalr is reported as a Call.
exec_jump_all_calls(instr) ==
    {Res("Call", jump_target(instr),
         write(registers, instr.rd, wrapping_add(pc, 4)), fp_registers, fcsr, data)}

\* Jal, Jalr: the link register is written, then Call or Jump is returned
exec_jump(instr) ==
    LET ret    == wrapping_add(pc, 4)
        target == jump_target(instr)
        regs   == write(registers, instr.rd, ret)
    IN  {Res(IF instr.rd = 1 THEN "Call" ELSE "Jump", target, regs,
             fp_registers, fcsr, data)}

\* A branch that is always taken and reported as a Call.
exec_branch_calls(instr) ==
    {Res("Call", wrapping_add(pc, instr.imm), registers, fp_registers, fcsr, data)}

\* Beq .. Bgeu
exec_branch(instr) ==
    LET a == read(registers, instr.rs1)
        b == read(registers, instr.rs2)
        taken == CASE instr.op = "Beq"  -> a = b
                   [] instr.op = "Bne"  -> a # b
                   [] instr.op = "Blt"  -> a < b
                   [] instr.op = "Bge"  -> a >= b
                   [] instr.op = "Bltu" -> ult(a, b)
                   [] instr.op = "Bgeu" -> ~ult(a, b)
    IN  IF taken
        THEN {Res("Jump", wrapping_add(pc, instr.imm), registers, fp_registers,
                  fcsr, data)}
        ELSE Nothing

\* Addi .. Srai
exec_op_imm(instr) ==
    LET a == read(registers, instr.rs1)
    IN  CASE instr.op = "Addi"  -> WriteRd(instr.rd, wrapping_add(a, instr.imm))
          [] instr.op = "Slti"  -> WriteRd(instr.rd, IF a < instr.imm THEN 1 ELSE 0)
          [] instr.op = "Sltiu" -> WriteRd(instr.rd, IF ult(a, instr.imm) THEN 1 ELSE 0)
          [] instr.op = "Xori"  -> WriteRd(instr.rd, bitop32("xor", a, instr.imm))
          [] instr.op = "Ori"   -> WriteRd(instr.rd, bitop32("or", a, instr.imm))
          [] instr.op = "Andi"  -> WriteRd(instr.rd, bitop32("and", a, instr.imm))
          [] instr.op = "Slli"  -> WriteRd(instr.rd, shl32(a, instr.shamt))
          [] instr.op = "Srli"  -> WriteRd(instr.rd, shr32(a, instr.shamt))
          [] instr.op = "Srai"  -> WriteRd(instr.rd, sar32(a, instr.shamt))

\* Add .. And
exec_op(instr) ==
    LET a  == read(registers, instr.rs1)
        b  == read(registers, instr.rs2)
        sh == b % 32
    IN  CASE instr.op = "Add"  -> WriteRd(instr.rd, wrapping_add(a, b))
          [] instr.op = "Sub"  -> WriteRd(instr.rd, wrapping_sub(a, b))
          [] instr.op = "Sll"  -> WriteRd(instr.rd, shl32(a, sh))
          [] instr.op = "Slt"  -> WriteRd(instr.rd, IF a < b THEN 1 ELSE 0)
          [] instr.op = "Sltu" -> WriteRd(instr.rd, IF ult(a, b) THEN 1 ELSE 0)
          [] instr.op = "Xor"  -> WriteRd(instr.rd, bitop32("xor", a, b))
          [] instr.op = "Srl"  -> WriteRd(instr.rd, shr32(a, sh))
          [] instr.op = "Sra"  -> WriteRd(instr.rd, sar32(a, sh))
          [] instr.op = "Or"   -> WriteRd(instr.rd, bitop32("or", a, b))
          [] instr.op = "And"  -> WriteRd(instr.rd, bitop32("and", a, b))

\* The M extension
exec_muldiv(instr) ==
    LET a == read(registers, instr.rs1)
        b == read(registers, instr.rs2)
        MIN == 0 - 2147483647 - 1
    IN  CASE instr.op = "Mul"   -> WriteRd(instr.rd, wrapping_mul(a, b))
          [] instr.op = "Mulh"  -> WriteRd(instr.rd, mulh(a, b))
          [] instr.op = "Mulhsu" -> WriteRd(instr.rd, mulhsu(a, b))
          [] instr.op = "Mulhu" -> WriteRd(instr.rd, mulhu(a, b))
          [] instr.op = "Div"   ->
               WriteRd(instr.rd, IF b = 0 THEN 0 - 1
                                 ELSE IF a = MIN /\ b = 0 - 1 THEN a
                                 ELSE wrapping_div(a, b))
          [] instr.op = "Divu"  ->
               WriteRd(instr.rd, IF b = 0 THEN 0 - 1 ELSE u32_div(a, b))
          [] instr.op = "Rem"   ->
               WriteRd(instr.rd, IF b = 0 THEN a
                                 ELSE IF a = MIN /\ b = 0 - 1 THEN 0
                                 ELSE wrapping_rem(a, b))
          [] instr.op = "Remu"  ->
               WriteRd(instr.rd, IF b = 0 THEN a ELSE u32_rem(a, b))

\* f32 and f64 bit patterns.  A single is the 32-bit pattern in the low
\* half of a register; a double is the record [lo, hi] of its two words.
exp32(x) == bits(x, 23, 8)
frac32(x) == x % 8388608
is_nan32(x) == exp32(x) = 255 /\ frac32(x) # 0
is_inf32(x) == exp32(x) = 255 /\ frac32(x) = 0
is_zero32(x) == exp32(x) = 0 /\ frac32(x) = 0

exp64(d) == bits(d.hi, 20, 11)
frac64_hi(d) == d.hi % 1048576
is_nan64(d) == exp64(d) = 2047 /\ (frac64_hi(d) # 0 \/ d.lo # 0)
is_inf64(d) == exp64(d) = 2047 /\ frac64_hi(d) = 0 /\ d.lo = 0
is_zero64(d) == exp64(d) = 0 /\ frac64_hi(d) = 0 /\ d.lo = 0

\* f32::copysign on the pattern: the low 31 bits of x under sign bit s
copysign(x, s) ==
    LET m == IF x < 0 THEN (x + 2147483647) + 1 ELSE x
    IN  IF s THEN (m - 2147483647) - 1 ELSE m

\* The sign bits a * b can have.  A product that is a NaN (an operand is a
\* NaN, or zero times infinity) has the sign the host gives its NaN, which
\* Rust leaves unspecified; every other product has the exclusive or of the
\* operands' signs.
product_signs(nan, sa, sb) == IF nan THEN {TRUE, FALSE} ELSE {sa # sb}

\* Fsgnj_s, Fsgnjn_s, Fsgnjx_s: a.copysign(b), a.copysign(-b), a.copysign(a * b)
exec_fsgnj_s(instr) ==
    LET a == read_u32(fp_registers, instr.rs1)
        b == read_u32(fp_registers, instr.rs2)
        nan == is_nan32(a) \/ is_nan32(b) \/ (is_zero32(a) /\ is_inf32(b))
               \/ (is_inf32(a) /\ is_zero32(b))
        signs == CASE instr.op = "Fsgnj_s"  -> {b < 0}
                   [] instr.op = "Fsgnjn_s" -> {~(b < 0)}
                   [] instr.op = "Fsgnjx_s" -> product_signs(nan, a < 0, b < 0)
    IN  {Res("Continue", 0, registers,
             write_u32(fp_registers, instr.rd, copysign(a, sg)), fcsr, data) :
            sg \in signs}

\* Fsgnj_d, Fsgnjn_d, Fsgnjx_d
exec_fsgnj_d(instr) ==
    LET a == read_double(fp_registers, instr.rs1)
        b == read_double(fp_registers, instr.rs2)
        nan == is_nan64(a) \/ is_nan64(b) \/ (is_zero64(a) /\ is_inf64(b))
               \/ (is_inf64(a) /\ is_zero64(b))
        signs == CASE instr.op = "Fsgnj_d"  -> {b.hi < 0}
                   [] instr.op = "Fsgnjn_d" -> {~(b.hi < 0)}
                   [] instr.op = "Fsgnjx_d" -> product_signs(nan, a.hi < 0, b.hi < 0)
    IN  {Res("Continue", 0, registers,
             write_double(fp_registers, instr.rd,
                          [lo |-> a.lo, hi |-> copysign(a.hi, sg)]), fcsr, data) :
            sg \in signs}

\* A classification that calls every NaN quiet.
fclass_mask_quiet(sign, exp_ones, exp_zero, frac_zero, frac_top) ==
    IF exp_ones
    THEN (IF frac_zero THEN (IF sign THEN 1 ELSE 128) ELSE 512)
    ELSE IF exp_zero
    THEN (IF frac_zero THEN (IF sign THEN 8 ELSE 16)
          ELSE IF sign THEN 4 ELSE 32)
    ELSE IF sign THEN 2 ELSE 64

\* the mask of Fclass_s and Fclass_d from the sign, whether the exponent is
\* all ones or zero, whether the fraction is zero and its top bit
fclass_mask(sign, exp_ones, exp_zero, frac_zero, frac_top) ==
    IF exp_ones
    THEN (IF frac_zero THEN (IF sign THEN 1 ELSE 128)
          ELSE IF ~frac_top THEN 256 ELSE 512)
    ELSE IF exp_zero
    THEN (IF frac_zero THEN (IF sign THEN 8 ELSE 16)
          ELSE IF sign THEN 4 ELSE 32)
    ELSE IF sign THEN 2 ELSE 64

exec_fclass(instr) ==
    IF instr.op = "Fclass_s"
    THEN LET a == read_u32(fp_registers, instr.rs1)
         IN  WriteRd(instr.rd, fclass_mask(a < 0, exp32(a) = 255, exp32(a) = 0,
                                           frac32(a) = 0, bits(a, 22, 1) = 1))
    ELSE LET a == read_double(fp_registers, instr.rs1)
         IN  WriteRd(instr.rd, fclass_mask(a.hi < 0, exp64(a) = 2047, exp64(a) = 0,
                                           frac64_hi(a) = 0 /\ a.lo = 0,
                                           bits(a.hi, 19, 1) = 1))

SYSCALL_EXIT == 93
SYSCALL_WRITE == 64
SYSCALL_READ == 63
SYSCALL_BRK == 214

\* The most bytes one host read or write transfers in the model (a host may
\* always transfer fewer bytes than it was asked to).
MaxIo == 2

\* The bytes the host's read can deliver.
InputByte == {104, 105}

min(a, b) == IF a < b THEN a ELSE b

\* Ecall.  The host's write returns Ok(n), n <= count, or fails; its read
\* also fills the first n bytes of the buffer.  A failed call panics (expect).
exec_ecall ==
    LET syscall == read(registers, A(7))
        buf     == read(registers, A(1))
        count   == read(registers, A(2))
        done(n, mem) ==
            Res("Continue", 0, write(registers, A(0), n), fp_registers, fcsr, mem)
    IN  CASE syscall = SYSCALL_EXIT ->
               {Res("Exit", 0, registers, fp_registers, fcsr, data)}
          [] syscall = SYSCALL_WRITE ->
               IF ~in_arena(buf, count) THEN Panic
               ELSE Panic \cup {done(n, data) : n \in 0 .. min(count, MaxIo)}
          [] syscall = SYSCALL_READ ->
               IF ~in_arena(buf, count) THEN Panic
               ELSE Panic \cup
                    UNION {{done(n, write_bytes(data, buf, bs)) :
                                bs \in [1 .. n -> InputByte]} :
                           n \in 0 .. min(count, MaxIo)}
          [] syscall = SYSCALL_BRK -> Nothing
          [] OTHER -> Nothing

(***************************************************************************)
(* Host floating point.  The operations are Rust's +, -, *, /, sqrt, min,  *)
(* max, == < <= and `as` on f32 and f64 under the default rounding.  A     *)
(* value is [k, s, m]: k = "int" is the integer of sign s and magnitude m  *)
(* (so -0 is kept apart from +0), "inf" the infinity of sign s, "nan" a    *)
(* NaN, and "open" a finite value that is not such an integer (fractional, *)
(* subnormal or beyond the bound of the precision), which the model does   *)
(* not compute with.                                                       *)
(***************************************************************************)
Fv(k, s, m) == [k |-> k, s |-> s, m |-> m]

\* the integers a single holds exactly, and the magnitudes the model reaches
\* for a double
Exact32 == Pow2(24) - 1
Exact64 == (Pow2(30) - 1) + Pow2(30)

RECURSIVE ilog2(_)
ilog2(m) == IF m < 2 THEN 0 ELSE 1 + ilog2(m \div 2)

\* the value of a single's pattern
single_value(p) ==
    LET e == exp32(p)
        f == frac32(p)
    IN  IF e = 255 THEN (IF f = 0 THEN Fv("inf", p < 0, 0) ELSE Fv("nan", FALSE, 0))
        ELSE IF e = 0 /\ f = 0 THEN Fv("int", p < 0, 0)
        ELSE IF e >= 127 /\ e <= 150 /\ f % Pow2(150 - e) = 0
             THEN Fv("int", p < 0, (8388608 + f) \div Pow2(150 - e))
             ELSE Fv("open", FALSE, 0)

\* the value of a double's pattern
double_value(d) ==
    LET e == exp64(d)
        f == frac64_hi(d)
        x == e - 1023
    IN  IF e = 2047
        THEN (IF f = 0 /\ d.lo = 0 THEN Fv("inf", d.hi < 0, 0) ELSE Fv("nan", FALSE, 0))
        ELSE IF e = 0 /\ f = 0 /\ d.lo = 0 THEN Fv("int", d.hi < 0, 0)
        ELSE IF x >= 0 /\ x <= 20 /\ d.lo = 0 /\ f % Pow2(20 - x) = 0
             THEN Fv("int", d.hi < 0, (1048576 + f) \div Pow2(20 - x))
        ELSE IF x >= 21 /\ x <= 30 /\ shl32(d.lo, x - 20) = 0
             THEN Fv("int", d.hi < 0, (1048576 + f) * Pow2(x - 20) + shr32(d.lo, 52 - x))
             ELSE Fv("open", FALSE, 0)

\* The patterns a NaN result can have (its sign and payload are the host's)
\* and the patterns standing for a result the model does not compute.
NaNs32 == {2143289344, 0 - 4194304}
NaNs64 == {[lo |-> 0, hi |-> 2146959360], [lo |-> 0, hi |-> 0 - 524288]}
Open32 == NaNs32 \cup {2139095040, 0 - 8388608, 1069547520, 0, 1}
Open64 == NaNs64 \cup {[lo |-> 0, hi |-> 2146435072], [lo |-> 0, hi |-> 0 - 1048576],
                       [lo |-> 0, hi |-> 1073217536], [lo |-> 0, hi |-> 0],
                       [lo |-> 1, hi |-> 0]}

\* the patterns of a value as a single
single_of(v) ==
    IF v.k = "nan" THEN NaNs32
    ELSE IF v.k = "inf" THEN {copysign(2139095040, v.s)}
    ELSE IF v.k = "open" \/ v.m > Exact32 THEN Open32
    ELSE IF v.m = 0 THEN {copysign(0, v.s)}
    ELSE LET e == ilog2(v.m)
         IN  {copysign((127 + e) * 8388608 + (v.m - Pow2(e)) * Pow2(23 - e), v.s)}

\* the patterns of a value as a double
double_of(v) ==
    IF v.k = "nan" THEN NaNs64
    ELSE IF v.k = "inf" THEN {[lo |-> 0, hi |-> copysign(2146435072, v.s)]}
    ELSE IF v.k = "open" THEN Open64
    ELSE IF v.m = 0 THEN {[lo |-> 0, hi |-> copysign(0, v.s)]}
    ELSE LET e == ilog2(v.m)
             r == v.m - Pow2(e)
         IN  IF e <= 20
             THEN {[lo |-> 0,
                    hi |-> copysign((1023 + e) * 1048576 + r * Pow2(20 - e), v.s)]}
             ELSE {[lo |-> shl32(r % Pow2(e - 20), 52 - e),
                    hi |-> copysign((1023 + e) * 1048576 + r \div Pow2(e - 20), v.s)]}

\* -x, x + y, x * y, x / y and x.sqrt(), with integer results up to bound
fp_neg(x) == IF x.k \in {"int", "inf"} THEN Fv(x.k, ~x.s, x.m) ELSE x

fp_add(x, y, bound) ==
    IF x.k = "nan" \/ y.k = "nan" THEN Fv("nan", FALSE, 0)
    ELSE IF x.k = "inf" /\ y.k = "inf"
         THEN (IF x.s = y.s THEN x ELSE Fv("nan", FALSE, 0))
    ELSE IF x.k = "inf" THEN x
    ELSE IF y.k = "inf" THEN y
    ELSE IF x.k = "open" \/ y.k = "open" THEN Fv("open", FALSE, 0)
    ELSE IF x.s = y.s
         THEN (IF x.m <= bound - y.m THEN Fv("int", x.s, x.m + y.m)
               ELSE Fv("open", FALSE, 0))
    ELSE IF x.m > y.m THEN Fv("int", x.s, x.m - y.m)
    ELSE IF y.m > x.m THEN Fv("int", y.s, y.m - x.m)
    ELSE Fv("int", FALSE, 0)

fp_mul(x, y, bound) ==
    LET zero(v) == v.k = "int" /\ v.m = 0
    IN  IF x.k = "nan" \/ y.k = "nan" THEN Fv("nan", FALSE, 0)
        ELSE IF (x.k = "inf" /\ zero(y)) \/ (zero(x) /\ y.k = "inf")
             THEN Fv("nan", FALSE, 0)
        ELSE IF x.k = "open" \/ y.k = "open" THEN Fv("open", FALSE, 0)
        ELSE IF x.k = "inf" \/ y.k = "inf" THEN Fv("inf", x.s # y.s, 0)
        ELSE IF x.m = 0 \/ y.m <= bound \div x.m THEN Fv("int", x.s # y.s, x.m * y.m)
        ELSE Fv("open", FALSE, 0)

fp_div(x, y) ==
    IF x.k = "nan" \/ y.k = "nan" THEN Fv("nan", FALSE, 0)
    ELSE IF x.k = "inf" /\ y.k = "inf" THEN Fv("nan", FALSE, 0)
    ELSE IF x.k = "open" \/ y.k = "open" THEN Fv("open", FALSE, 0)
    ELSE IF x.k = "inf" THEN Fv("inf", x.s # y.s, 0)
    ELSE IF y.k = "inf" THEN Fv("int", x.s # y.s, 0)
    ELSE IF y.m = 0
         THEN (IF x.m = 0 THEN Fv("nan", FALSE, 0) ELSE Fv("inf", x.s # y.s, 0))
    ELSE IF x.m % y.m = 0 THEN Fv("int", x.s # y.s, x.m \div y.m)
    ELSE Fv("open", FALSE, 0)

fp_sqrt(x) ==
    IF x.k \in {"nan", "open"} THEN x
    ELSE IF x.k = "int" /\ x.m = 0 THEN x
    ELSE IF x.s THEN Fv("nan", FALSE, 0)
    ELSE IF x.k = "inf" THEN x
    ELSE IF \E r \in 1 .. 4096 : r * r = x.m
         THEN Fv("int", FALSE, CHOOSE r \in 1 .. 4096 : r * r = x.m)
         ELSE Fv("open", FALSE, 0)

\* The order of two patterns that are no NaNs: [s, h, l] is the sign, the
\* upper word without the sign and the lower word (0 for a single).
fp_parts(double, p) ==
    IF double THEN [s |-> p.hi < 0, h |-> copysign(p.hi, FALSE), l |-> p.lo]
    ELSE [s |-> p < 0, h |-> copysign(p, FALSE), l |-> 0]

fp_is_nan(double, p) == IF double THEN is_nan64(p) ELSE is_nan32(p)

fp_lt(double, p, q) ==
    LET a == fp_parts(double, p)
        b == fp_parts(double, q)
        below(x, y) == x.h < y.h \/ (x.h = y.h /\ ult(x.l, y.l))
    IN  /\ ~fp_is_nan(double, p) /\ ~fp_is_nan(double, q)
        /\ IF a.s # b.s
           THEN a.s /\ ~(a.h = 0 /\ a.l = 0 /\ b.h = 0 /\ b.l = 0)
           ELSE IF a.s THEN below(b, a) ELSE below(a, b)

fp_eq(double, p, q) ==
    LET a == fp_parts(double, p)
        b == fp_parts(double, q)
    IN  /\ ~fp_is_nan(double, p) /\ ~fp_is_nan(double, q)
        /\ \/ p = q
           \/ (a.h = 0 /\ a.l = 0 /\ b.h = 0 /\ b.l = 0)

\* f32::min, f32::max and the f64 ones: the other operand when one is a NaN,
\* either operand when they compare equal
fp_minmax(double, is_min, p, q) ==
    IF fp_is_nan(double, p) /\ fp_is_nan(double, q) THEN {p, q}
    ELSE IF fp_is_nan(double, p) THEN {q}
    ELSE IF fp_is_nan(double, q) THEN {p}
    ELSE IF fp_lt(double, p, q) THEN (IF is_min THEN {p} ELSE {q})
    ELSE IF fp_lt(double, q, p) THEN (IF is_min THEN {q} ELSE {p})
    ELSE {p, q}

\* `as i32` and `as u32 as i32` on a float: truncation toward zero that
\* saturates, with 0 for a NaN.  e is the unbiased exponent, m the integer
\* part of the magnitude when e <= 30, top the word a u32 holds when e = 31.
float_to_int(unsigned, nan, sign, e, m, top) ==
    IF nan THEN 0
    ELSE IF unsigned
         THEN (IF sign \/ e < 0 THEN 0
               ELSE IF e <= 30 THEN m
               ELSE IF e = 31 THEN top
               ELSE 0 - 1)
    ELSE IF e < 0 THEN 0
    ELSE IF e <= 30 THEN (IF sign THEN 0 - m ELSE m)
    ELSE IF sign THEN (0 - 2147483647) - 1 ELSE 2147483647

single_to_int(unsigned, p) ==
    LET e == exp32(p) - 127
        mant == 8388608 + frac32(p)
        m == IF e < 0 THEN 0
             ELSE IF e <= 23 THEN mant \div Pow2(23 - e)
             ELSE IF e <= 30 THEN mant * Pow2(e - 23)
             ELSE 0
    IN  float_to_int(unsigned, is_nan32(p), p < 0, e, m, shl32(mant, 8))

double_to_int(unsigned, d) ==
    LET e == exp64(d) - 1023
        mant == 1048576 + frac64_hi(d)
        m == IF e < 0 THEN 0
             ELSE IF e <= 20 THEN mant \div Pow2(20 - e)
             ELSE IF e <= 30 THEN mant * Pow2(e - 20) + shr32(d.lo, 52 - e)
             ELSE 0
    IN  float_to_int(unsigned, is_nan64(d), d.hi < 0, e, m,
                     shl32(mant, 11) + shr32(d.lo, 21))

\* `as f32` / `as f64` on an i32, or on a u32 when unsigned
int_value(unsigned, a) ==
    IF a >= 0 THEN Fv("int", FALSE, a)
    ELSE IF unsigned \/ a = (0 - 2147483647) - 1 THEN Fv("open", FALSE, 0)
    ELSE Fv("int", TRUE, 0 - a)

\* the double of an integer of magnitude 2^31 + r: u32 values with the top
\* bit set, and i32::MIN
double_of_2p31(sign, r) ==
    [lo |-> shl32(r, 21), hi |-> copysign(1054 * 1048576 + r \div 2048, sign)]

int_to_double(unsigned, a) ==
    IF a >= 0 \/ (~unsigned /\ a # (0 - 2147483647) - 1)
    THEN double_of(int_value(unsigned, a))
    ELSE IF unsigned THEN {double_of_2p31(FALSE, (a + 2147483647) + 1)}
    ELSE {double_of_2p31(TRUE, 0)}

\* f32 as f64 is exact: a normal single keeps its fraction
single_to_double(p) ==
    LET e == exp32(p)
        f == frac32(p)
    IN  IF is_nan32(p) THEN NaNs64
        ELSE IF e = 255 THEN {[lo |-> 0, hi |-> copysign(2146435072, p < 0)]}
        ELSE IF e = 0 THEN (IF f = 0 THEN {[lo |-> 0, hi |-> copysign(0, p < 0)]}
                            ELSE Open64)
        ELSE {[lo |-> shl32(f % 8, 29),
               hi |-> copysign((e + 896) * 1048576 + f \div 8, p < 0)]}

DoubleOps ==
    {"Fadd_d", "Fsub_d", "Fmul_d", "Fdiv_d", "Fsqrt_d", "Fmin_d", "Fmax_d",
     "Fmadd_d", "Fmsub_d", "Fnmadd_d", "Fnmsub_d", "Feq_d", "Flt_d", "Fle_d"}

\* Fadd, Fsub, Fmul, Fdiv, Fsqrt and the fused operations, which the engine
\* computes as a product followed by a sum; rm is ignored
exec_fp_arith(instr) ==
    LET double == instr.op \in DoubleOps
        bound == IF double THEN Exact64 ELSE Exact32
        val(idx) == IF double THEN double_value(read_double(fp_registers, idx))
                    ELSE single_value(read_u32(fp_registers, idx))
        a == val(instr.rs1)
        b == val(instr.rs2)
        c == val(instr.rs3)
        ab == fp_mul(a, b, bound)
        v == CASE instr.op \in {"Fadd_s", "Fadd_d"} -> fp_add(a, b, bound)
               [] instr.op \in {"Fsub_s", "Fsub_d"} -> fp_add(a, fp_neg(b), bound)
               [] instr.op \in {"Fmul_s", "Fmul_d"} -> ab
               [] instr.op \in {"Fdiv_s", "Fdiv_d"} -> fp_div(a, b)
               [] instr.op \in {"Fsqrt_s", "Fsqrt_d"} -> fp_sqrt(a)
               [] instr.op \in {"Fmadd_s", "Fmadd_d", "Fnmadd_d"} -> fp_add(ab, c, bound)
               [] instr.op \in {"Fmsub_s", "Fmsub_d", "Fnmsub_d"} ->
                    fp_add(ab, fp_neg(c), bound)
               [] instr.op = "Fnmadd_s" -> fp_add(fp_neg(ab), c, bound)
               [] instr.op = "Fnmsub_s" -> fp_add(fp_neg(ab), fp_neg(c), bound)
    IN  IF double
        THEN {Res("Continue", 0, registers,
                  write_double(fp_registers, instr.rd, r), fcsr, data) :
                 r \in double_of(v)}
        ELSE {Res("Continue", 0, registers,
                  write_u32(fp_registers, instr.rd, r), fcsr, data) :
                 r \in single_of(v)}

\* Fmin, Fmax
exec_fp_minmax(instr) ==
    LET is_min == instr.op \in {"Fmin_s", "Fmin_d"}
    IN  IF instr.op \in DoubleOps
        THEN {Res("Continue", 0, registers,
                  write_double(fp_registers, instr.rd, r), fcsr, data) :
                 r \in fp_minmax(TRUE, is_min, read_double(fp_registers, instr.rs1),
                                 read_double(fp_registers, instr.rs2))}
        ELSE {Res("Continue", 0, registers,
                  write_u32(fp_registers, instr.rd, r), fcsr, data) :
                 r \in fp_minmax(FALSE, is_min, read_u32(fp_registers, instr.rs1),
                                 read_u32(fp_registers, instr.rs2))}

\* Feq, Flt, Fle: rd is 1 or 0
exec_fp_compare(instr) ==
    LET double == instr.op \in DoubleOps
        a == IF double THEN read_double(fp_registers, instr.rs1)
             ELSE read_u32(fp_registers, instr.rs1)
        b == IF double THEN read_double(fp_registers, instr.rs2)
             ELSE read_u32(fp_registers, instr.rs2)
        holds == CASE instr.op \in {"Feq_s", "Feq_d"} -> fp_eq(double, a, b)
                   [] instr.op \in {"Flt_s", "Flt_d"} -> fp_lt(double, a, b)
                   [] instr.op \in {"Fle_s", "Fle_d"} ->
                        fp_lt(double, a, b) \/ fp_eq(double, a, b)
    IN  WriteRd(instr.rd, IF holds THEN 1 ELSE 0)

\* The conversions
exec_fcvt(instr) ==
    LET x == read(registers, instr.rs1)
        s == read_u32(fp_registers, instr.rs1)
        d == read_double(fp_registers, instr.rs1)
        Single(ps) == {Res("Continue", 0, registers,
                           write_u32(fp_registers, instr.rd, r), fcsr, data) : r \in ps}
        Double(ps) == {Res("Continue", 0, registers,
                           write_double(fp_registers, instr.rd, r), fcsr, data) : r \in ps}
    IN  CASE instr.op = "Fcvt_s_w"  -> Single(single_of(int_value(FALSE, x)))
          [] instr.op = "Fcvt_s_wu" -> Single(single_of(int_value(TRUE, x)))
          [] instr.op = "Fcvt_w_s"  -> WriteRd(instr.rd, single_to_int(FALSE, s))
          [] instr.op = "Fcvt_wu_s" -> WriteRd(instr.rd, single_to_int(TRUE, s))
          [] instr.op = "Fcvt_d_w"  -> Double(int_to_double(FALSE, x))
          [] instr.op = "Fcvt_d_wu" -> Double(int_to_double(TRUE, x))
          [] instr.op = "Fcvt_w_d"  -> WriteRd(instr.rd, double_to_int(FALSE, d))
          [] instr.op = "Fcvt_wu_d" -> WriteRd(instr.rd, double_to_int(TRUE, d))
          [] instr.op = "Fcvt_s_d"  -> Single(single_of(double_value(d)))
          [] instr.op = "Fcvt_d_s"  -> Double(single_to_double(s))

\* A CSR access that reads the rounding mode and raises the inexact flag.
exec_csr_inexact(instr) ==
    {Res("Continue", 0, write(registers, instr.rd, fcsr.rm), fp_registers,
         [fcsr EXCEPT !.nx = TRUE], data)}

\* Frrm, Fsrm.  Fsrm writes rd first, then reads rs1 and converts it; a value
\* that is no rounding mode panics (expect) after rd was written.
exec_csr(instr) ==
    LET rm == fcsr.rm
        regs == write(registers, instr.rd, rm)
    IN  IF instr.op = "Frrm" THEN WriteRd(instr.rd, rm)
        ELSE LET new_rm == read(regs, instr.rs1)
             IN  IF RoundingMode_ok(new_rm)
                 THEN {Res("Continue", 0, regs, fp_registers,
                           [fcsr EXCEPT !.rm = new_rm], data)}
                 ELSE {Res("Panic", 0, regs, fp_registers, fcsr, data)}

\* Core32::exec
exec(instr) ==
    CASE instr.op = "Lui" -> WriteRd(instr.rd, instr.imm)
      [] instr.op = "Auipc" -> WriteRd(instr.rd, wrapping_add(pc, instr.imm))
      [] instr.op \in {"Jal", "Jalr"} -> exec_jump(instr)
      [] instr.op \in {"Beq", "Bne", "Blt", "Bge", "Bltu", "Bgeu"} -> exec_branch(instr)
      [] instr.op \in {"Lb", "Lh", "Lw", "Lbu", "Lhu", "Flw", "Fld"} -> exec_load(instr)
      [] instr.op \in {"Sb", "Sh", "Sw", "Fsw", "Fsd"} -> exec_store(instr)
      [] instr.op \in {"Addi", "Slti", "Sltiu", "Xori", "Ori", "Andi",
                       "Slli", "Srli", "Srai"} -> exec_op_imm(instr)
      [] instr.op \in {"Add", "Sub", "Sll", "Slt", "Sltu", "Xor", "Srl", "Sra",
                       "Or", "And"} -> exec_op(instr)
      [] instr.op \in {"Mul", "Mulh", "Mulhsu", "Mulhu", "Div", "Divu", "Rem", "Remu"} ->
           exec_muldiv(instr)
      [] instr.op \in {"Fsgnj_s", "Fsgnjn_s", "Fsgnjx_s"} -> exec_fsgnj_s(instr)
      [] instr.op \in {"Fsgnj_d", "Fsgnjn_d", "Fsgnjx_d"} -> exec_fsgnj_d(instr)
      [] instr.op \in {"Fclass_s", "Fclass_d"} -> exec_fclass(instr)
      [] instr.op \in {"Fadd_s", "Fsub_s", "Fmul_s", "Fdiv_s", "Fsqrt_s",
                       "Fadd_d", "Fsub_d", "Fmul_d", "Fdiv_d", "Fsqrt_d",
                       "Fmadd_s", "Fmsub_s", "Fnmadd_s", "Fnmsub_s",
                       "Fmadd_d", "Fmsub_d", "Fnmadd_d", "Fnmsub_d"} ->
           exec_fp_arith(instr)
      [] instr.op \in {"Fmin_s", "Fmax_s", "Fmin_d", "Fmax_d"} -> exec_fp_minmax(instr)
      [] instr.op \in {"Feq_s", "Flt_s", "Fle_s", "Feq_d", "Flt_d", "Fle_d"} ->
           exec_fp_compare(instr)
      [] instr.op \in {"Fcvt_s_w", "Fcvt_s_wu", "Fcvt_w_s", "Fcvt_wu_s",
                       "Fcvt_d_w", "Fcvt_d_wu", "Fcvt_w_d", "Fcvt_wu_d",
                       "Fcvt_s_d", "Fcvt_d_s"} -> exec_fcvt(instr)
      [] instr.op = "Fmv_s_w" ->
           WriteRd(instr.rd, read_u32(fp_registers, instr.rs1))
      [] instr.op = "Fmv_w_s" ->
           WriteFp(write_u32(fp_registers, instr.rd, read(registers, instr.rs1)))
      [] instr.op \in {"Fmv_x_d", "Fmv_d_x"} -> Panic
      [] instr.op \in {"Fence", "Fence_i"} -> Nothing
      [] instr.op = "Ecall" -> exec_ecall
      [] instr.op \in {"Frrm", "Fsrm"} -> exec_csr(instr)
      [] instr.op = "Ebreak" -> Panic
      [] instr.op = "Unknown" -> Panic

(***************************************************************************)
(* The block primitives of Memory.  They take i32 arguments, convert them  *)
(* with `as usize` and hand them to ptr::write_bytes, copy_nonoverlapping  *)
(* and copy without any test against the arena.  A range that leaves the   *)
(* arena, or overlapping ranges given to copy_nonoverlapping, is undefined *)
(* behaviour; its outcomes are a fault of the process ("crash") or a       *)
(* completed call that read or wrote host memory beside the arena (oob).   *)
(* A negative length is a length of 2^64 - |length| bytes, which no        *)
(* address space holds: the call faults.  Each result is                   *)
(* [kind |-> "ok" or "crash", mem, oob].                                   *)
(***************************************************************************)
Blk(kind, mem, oob) == [kind |-> kind, mem |-> mem, oob |-> oob]

\* whether arena address a lies in [idx, idx + length), length >= 0
covers(idx, length, a) ==
    IF idx >= 0 THEN a >= idx /\ a - idx < length
    ELSE length + idx > 0 /\ a < length + idx

\* what host memory holds beside the arena
HostByte == {0, 255}

\* Memory::memset
memset(mem, idx, value, length) ==
    IF length < 0 THEN {Blk("crash", mem, TRUE)}
    ELSE IF length = 0 THEN {Blk("ok", mem, FALSE)}
    ELSE LET filled == [a \in DOMAIN mem |->
                          IF covers(idx, length, a) THEN value % 256 ELSE mem[a]]
         IN  IF in_arena(idx, length) THEN {Blk("ok", filled, FALSE)}
             ELSE {Blk("crash", mem, TRUE), Blk("ok", filled, TRUE)}

\* the arena after a copy that moves one byte at a time, lowest address first
RECURSIVE bytewise(_, _, _, _, _)
bytewise(mem, dest, src, i, length) ==
    IF i = length THEN mem
    ELSE bytewise([mem EXCEPT ![dest + i] = mem[src + i]], dest, src, i + 1, length)

\* A copy inside the arena that moves one byte at a time, lowest first.
moved_forward(mem, dest, src, length, g) ==
    IF in_arena(dest, length) /\ in_arena(src, length)
    THEN bytewise(mem, dest, src, 0, length)
    ELSE mem

\* the arena after a copy that reads every source byte before any write;
\* g stands for the source bytes that lie outside the arena
moved(mem, dest, src, length, g) ==
    [a \in DOMAIN mem |->
        IF covers(dest, length, a)
        THEN LET s == src + (a - dest)
             IN  IF s \in DOMAIN mem THEN mem[s] ELSE g
        ELSE mem[a]]

overlap(dest, src, length) ==
    length > 0 /\ dest - src < length /\ src - dest < length

\* Memory::memmove
memmove(mem, dest, src, length) ==
    IF length < 0 THEN {Blk("crash", mem, TRUE)}
    ELSE IF length = 0 THEN {Blk("ok", mem, FALSE)}
    ELSE IF in_arena(dest, length) /\ in_arena(src, length)
         THEN {Blk("ok", moved(mem, dest, src, length, 0), FALSE)}
         ELSE {Blk("crash", mem, TRUE)}
              \cup {Blk("ok", moved(mem, dest, src, length, g), TRUE) : g \in HostByte}

\* Memory::memcpy
memcpy(mem, dest, src, length) ==
    IF length < 0 THEN {Blk("crash", mem, TRUE)}
    ELSE IF length = 0 THEN {Blk("ok", mem, FALSE)}
    ELSE IF in_arena(dest, length) /\ in_arena(src, length)
         THEN IF overlap(dest, src, length)
              THEN {Blk("ok", moved(mem, dest, src, length, 0), FALSE),
                    Blk("ok", bytewise(mem, dest, src, 0, length), FALSE)}
              ELSE {Blk("ok", moved(mem, dest, src, length, 0), FALSE)}
         ELSE {Blk("crash", mem, TRUE)}
              \cup {Blk("ok", moved(mem, dest, src, length, g), TRUE) : g \in HostByte}

(***************************************************************************)
(* The host's libm, for the cos and sin intercepts.  A double is the pair  *)
(* of its 32-bit halves.  For an argument of magnitude below 2^-27         *)
(* (zero and the subnormals included) cos is 1.0 and sin is the argument;  *)
(* for any other argument the result is some double the model does not     *)
(* compute, one of LibmRange.                                              *)
(***************************************************************************)
F64(hi, lo) == [lo |-> lo, hi |-> hi]

f64_tiny(x) == bits(x.hi, 20, 11) < 996

LibmRange == {F64(0, 0), F64(1072693248, 0), F64(from_halves(49136, 0), 0),
              F64(2146959360, 0)}

f64_cos(x) == IF f64_tiny(x) THEN {F64(1072693248, 0)} ELSE LibmRange

f64_sin(x) == IF f64_tiny(x) THEN {x} ELSE LibmRange

(***************************************************************************)
(* Guest programs.  The words are built with the standard RISC-V formats   *)
(* (the reference encoder of the specification, section 4.1); the engine   *)
(* only ever sees the words.                                               *)
(***************************************************************************)
\* a field that occupies the top n bits of the word, as a signed multiplier
top_field(v, n) == IF v >= Pow2(n - 1) THEN v - Pow2(n) ELSE v

enc_r(opcode, funct3, funct7, rd, rs1, rs2) ==
    top_field(funct7, 7) * Pow2(25) + rs2 * Pow2(20) + rs1 * Pow2(15)
    + funct3 * Pow2(12) + rd * Pow2(7) + opcode

enc_i(opcode, funct3, rd, rs1, imm) ==
    top_field(imm % 4096, 12) * Pow2(20) + rs1 * Pow2(15) + funct3 * Pow2(12)
    + rd * Pow2(7) + opcode

enc_s(opcode, funct3, rs1, rs2, imm) ==
    LET u == imm % 4096
    IN  top_field(u \div 32, 7) * Pow2(25) + rs2 * Pow2(20) + rs1 * Pow2(15)
        + funct3 * Pow2(12) + (u % 32) * Pow2(7) + opcode

enc_b(opcode, funct3, rs1, rs2, imm) ==
    LET u == imm % 8192
        hi7 == (u \div 4096) * 64 + ((u \div 32) % 64)
        lo5 == ((u \div 2) % 16) * 2 + ((u \div 2048) % 2)
    IN  top_field(hi7, 7) * Pow2(25) + rs2 * Pow2(20) + rs1 * Pow2(15)
        + funct3 * Pow2(12) + lo5 * Pow2(7) + opcode

\* imm is the value placed in rd: a multiple of 4096
enc_u(opcode, rd, imm) == imm + rd * Pow2(7) + opcode

enc_j(opcode, rd, imm) ==
    LET u == imm % Pow2(21)
        hi11 == (u \div Pow2(20)) * 1024 + ((u \div 2) % 1024)
    IN  top_field(hi11, 11) * Pow2(21) + ((u \div 2048) % 2) * Pow2(20)
        + ((u \div 4096) % 256) * Pow2(12) + rd * Pow2(7) + opcode

LUI(rd, imm)            == enc_u(55, rd, imm)
JAL(rd, imm)            == enc_j(111, rd, imm)
JALR(rd, rs1, imm)      == enc_i(103, 0, rd, rs1, imm)
BEQ(rs1, rs2, imm)      == enc_b(99, 0, rs1, rs2, imm)
BNE(rs1, rs2, imm)      == enc_b(99, 1, rs1, rs2, imm)
ADDI(rd, rs1, imm)      == enc_i(19, 0, rd, rs1, imm)
ADD(rd, rs1, rs2)       == enc_r(51, 0, 0, rd, rs1, rs2)
ECALL                   == enc_i(115, 0, 0, 0, 0)
FLD(rd, rs1, imm)       == enc_i(7, 3, rd, rs1, imm)
FLW(rd, rs1, imm)       == enc_i(7, 2, rd, rs1, imm)

\* a load into t1 (or ft1), or a store of t0 (or ft0), at imm(rs1)
mem_word(op, rs1, imm) ==
    CASE op = "lb"  -> enc_i(3, 0, 6, rs1, imm)
      [] op = "lh"  -> enc_i(3, 1, 6, rs1, imm)
      [] op = "lw"  -> enc_i(3, 2, 6, rs1, imm)
      [] op = "lbu" -> enc_i(3, 4, 6, rs1, imm)
      [] op = "lhu" -> enc_i(3, 5, 6, rs1, imm)
      [] op = "flw" -> enc_i(7, 2, 6, rs1, imm)
      [] op = "fld" -> enc_i(7, 3, 6, rs1, imm)
      [] op = "sb"  -> enc_s(35, 0, rs1, 5, imm)
      [] op = "sh"  -> enc_s(35, 1, rs1, 5, imm)
      [] op = "sw"  -> enc_s(35, 2, rs1, 5, imm)
      [] op = "fsw" -> enc_s(39, 2, rs1, 5, imm)
      [] op = "fsd" -> enc_s(39, 3, rs1, 5, imm)

MemOps == {"lb", "lh", "lw", "lbu", "lhu", "flw", "fld", "sb", "sh", "sw", "fsw", "fsd"}

\* li a7, 93; ecall
ExitSeq == << ADDI(17, 0, 93), ECALL >>

(***************************************************************************)
(* The loaded ELF and the command line: one PT_LOAD segment holding the    *)
(* words, the entry point (e_entry or --entrypoint), the five symbol       *)
(* addresses (0 for a symbol the ELF lacks) and the --size argument.       *)
(***************************************************************************)
Wk(ms, mc, mm, c, sn) ==
    [memset |-> ms, memcpy |-> mc, memmove |-> mm, cos |-> c, sin |-> sn]

WkNone == Wk(0, 0, 0, 0, 0)

Case(words, entry, table, req) ==
    [vaddr |-> 16, words |-> words, entry |-> entry, wk |-> table, req |-> req]

INT_MIN == 0 - 2147483647 - 1

\* exit with a chosen status in a0
ExitCases ==
    {Case(<< w >> \o ExitSeq, 16, WkNone, 96) :
        w \in {ADDI(10, 0, 7), ADDI(10, 0, 0 - 1), LUI(10, INT_MIN),
               ADDI(10, 0, 300), ADDI(0, 0, 0)}}

\* one typed access at an address around the ends of the arena or inside the
\* text segment, with base x0, t0 (0xBEBE) or sp, and two arena sizes
MemAddrs == {0 - 1, 0, 20, 50, 88, 89, 92, 93, 94, 95, 96,
             104, 105, 108, 109, 110, 111, 112}

MemCases ==
    {Case(<< mem_word(op, 0, imm) >> \o ExitSeq, 16, WkNone, req) :
        op \in MemOps, imm \in MemAddrs, req \in {96, 120}}
    \cup {Case(<< mem_word(op, rs1, 0) >> \o ExitSeq, 16, WkNone, 96) :
        op \in MemOps, rs1 \in {2, 5}}

\* instructions whose destination is x0, and reads of x0
X0Cases ==
    {Case(<< ADDI(0, 0, 5), LUI(0, 4096), ADD(5, 0, 0), enc_i(3, 2, 0, 0, 48),
             JAL(0, 4), JALR(0, 0, 24 + 16), ADDI(6, 0, 9) >> \o ExitSeq,
          16, WkNone, 96)}

\* Layout of the call programs (addresses):
\*   16, 20, 24  three set-up instructions
\*   28          the transfer to address 40 (or 0)
\*   32, 36      li a7, 93; ecall
\*   40          addi t1, x0, 1     the guest routine at the symbol's address
\*   44          jalr x0, 0(ra)     its return
Setups ==
    {<< ADDI(10, 0, d), ADDI(11, 0, v), ADDI(12, 0, n) >> :
        d \in {50, 94}, v \in {52, 65}, n \in {0, 4, 0 - 1}}
    \cup {<< FLD(10, 0, 48), ADDI(0, 0, 0), ADDI(0, 0, 0) >>,
          << ADDI(0, 0, 0), ADDI(0, 0, 0), ADDI(0, 0, 0) >>}

Transfers ==
    {JAL(1, 12), JAL(0, 12), JAL(5, 12), BEQ(0, 0, 12), JALR(1, 0, 40),
     JALR(5, 0, 40), JALR(1, 0, 0), JAL(1, 0 - 28), JAL(1, 0), ADDI(0, 0, 0)}

WkTables ==
    {WkNone, Wk(40, 0, 0, 0, 0), Wk(0, 40, 0, 0, 0), Wk(0, 0, 40, 0, 0),
     Wk(0, 0, 0, 40, 0), Wk(0, 0, 0, 0, 40), Wk(40, 40, 40, 40, 40),
     Wk(28, 40, 44, 40, 36)}

CallCases ==
    {Case(su \o << t >> \o ExitSeq \o << ADDI(6, 0, 1), JALR(0, 1, 0) >>,
          entry, table, 96) :
        su \in Setups, t \in Transfers, table \in WkTables, entry \in {16, 28, 36, 40}}

\* self-calls, self-jumps and transfers out of the text segment
JumpCases ==
    {Case(<< w, j >> \o ExitSeq, 16, table, 96) :
        w \in {ADDI(10, 0, 7), ADDI(0, 0, 0), ADDI(5, 0, 1), ADDI(1, 0, 1)},
        j \in {JAL(1, 0), JAL(0, 0), JAL(5, 0), JALR(1, 0, 20), JALR(0, 0, 20),
               JALR(1, 0, 21), JAL(0, 60), JALR(0, 0, 0), JAL(0, 0 - 8),
               JAL(0, 2), BNE(0, 5, 6), JALR(5, 5, 24), JALR(1, 1, 24), JALR(1, 1, 23),
               JAL(1, 4), JALR(6, 5, 23), BEQ(0, 0, 0)},
        table \in {WkNone, Wk(20, 0, 0, 0, 0)}}

\* the write, read and brk syscalls and an unknown one
IoCases ==
    {Case(<< ADDI(10, 0, 1), ADDI(11, 0, b), ADDI(12, 0, n), ADDI(17, 0, sys), ECALL >>
          \o ExitSeq, 16, WkNone, 96) :
        b \in {48, 95, 96, 0 - 1}, n \in {0, 1, 2, 3, 0 - 1}, sys \in {63, 64, 214, 1}}

\* the words this decoder takes for fsrm and frrm (opcode 0x73, funct3 2,
\* immediate 1 and 2)
FSRM(rd, rs1) == enc_i(115, 2, rd, rs1, 1)
FRRM(rd) == enc_i(115, 2, rd, 0, 2)

\* t0 = v, t1 = u, rm = u, then one fsrm and a frrm
CsrCases ==
    {Case(<< ADDI(5, 0, v), ADDI(6, 0, u), FSRM(0, 6), FSRM(f[1], f[2]), FRRM(7) >>
          \o ExitSeq, 16, WkNone, 96) :
        v \in {0, 1, 2, 3, 4, 5, 6, 7, 8, 0 - 1}, u \in {0, 3},
        f \in {<< 7, 5 >>, << 5, 5 >>, << 0, 5 >>, << 6, 5 >>, << 5, 6 >>, << 5, 0 >>}}

\* t0 and t1 are loaded with two operands, each << upper part, lower part >>,
\* and one register-register operation follows
Val(v) == wrapping_add(v[1], v[2])

BinCase(a, b, w) ==
    Case(<< LUI(5, a[1]), ADDI(5, 5, a[2]), LUI(6, b[1]), ADDI(6, 6, b[2]), w >>
         \o ExitSeq, 16, WkNone, 96)

DivOperands ==
    {<< 0, 0 >>, << 0, 1 >>, << 0, 0 - 1 >>, << 0, 2 >>, << 0, 0 - 2 >>, << 0, 7 >>,
     << 0, 0 - 7 >>, << INT_MIN, 0 >>, << INT_MIN, 0 - 1 >>}

\* div, divu, rem, remu with rd another register, rd = rs1 and rd = x0
DivCases ==
    {BinCase(a, b, enc_r(51, f3, 1, d, 5, 6)) :
        a \in DivOperands, b \in DivOperands, f3 \in 4 .. 7, d \in {7, 5}}
    \cup {BinCase(<< 0, 7 >>, b, enc_r(51, f3, 1, 0, 5, 6)) :
        b \in {<< 0, 0 >>, << 0, 2 >>}, f3 \in 4 .. 7}

\* the six branches over operands of both signs, forwards, backwards and
\* to an address below zero
BranchOperands ==
    {<< 0, 0 >>, << 0, 1 >>, << 0, 0 - 1 >>, << INT_MIN, 0 >>, << INT_MIN, 0 - 1 >>}

BranchCases ==
    {BinCase(a, b, enc_b(99, f3, 5, 6, imm)) :
        a \in BranchOperands, b \in BranchOperands, f3 \in {0, 1, 4, 5, 6, 7},
        imm \in {8, 0 - 8, 0 - 4096}}

\* shifts by register, with amounts that agree in their low five bits, and
\* by immediate
ShiftValues ==
    {<< 0, 1 >>, << 0, 0 - 1 >>, << INT_MIN, 0 >>, << INT_MIN, 1 >>, << 305418240, 1656 >>}

ShiftAmounts ==
    {<< 0, 0 >>, << 0, 1 >>, << 0, 31 >>, << 0, 32 >>, << 0, 33 >>, << 0, 0 - 1 >>,
     << 0, 16 >>, << 0, 48 >>, << 4096, 1 >>}

ShiftCases ==
    {BinCase(a, b, enc_r(51, f[1], f[2], 7, 5, 6)) :
        a \in ShiftValues, b \in ShiftAmounts,
        f \in {<< 1, 0 >>, << 5, 0 >>, << 5, 32 >>}}
    \cup {BinCase(a, << 0, 0 >>, enc_r(19, f[1], f[2], 7, 5, h)) :
        a \in ShiftValues, h \in {0, 1, 16, 31},
        f \in {<< 1, 0 >>, << 1, 32 >>, << 5, 0 >>, << 5, 32 >>}}

\* A store of t0 at address 57 through t2 + imm, then a load of each width
\* at 57 .. 60 through t2 + imm; t0 is 0x80FF7F81 or 0x7F0180FF and t2 is
\* 0 or -8.
StoreLoadCases ==
    {Case(<< LUI(5, v[1]), ADDI(5, 5, v[2]), ADDI(7, 0, base),
             mem_word(st, 7, 57 - base), mem_word(ld, 7, 57 + d - base) >> \o ExitSeq,
          16, WkNone, 96) :
        v \in {<< 0 - 2130739200, 0 - 127 >>, << 2130804736, 255 >>},
        base \in {0, 0 - 8}, st \in {"sb", "sh", "sw"},
        ld \in {"lb", "lh", "lw", "lbu", "lhu"}, d \in 0 .. 3}

\* A load at 57 or 58 after an intercepted memset, memcpy or memmove wrote
\* there (the routine is at 44), and after the read syscall did.
LoadAfterCases ==
    {Case(<< ADDI(10, 0, 57), ADDI(11, 0, a1), ADDI(12, 0, 3), JAL(1, 16),
             mem_word(ld, 0, 57 + d) >> \o ExitSeq, 16, table, 96) :
        a1 \in {385, 17}, ld \in {"lb", "lhu", "lw"}, d \in {0, 1},
        table \in {Wk(44, 0, 0, 0, 0), Wk(0, 44, 0, 0, 0), Wk(0, 0, 44, 0, 0)}}
    \cup {Case(<< ADDI(10, 0, 0), ADDI(11, 0, 57), ADDI(12, 0, 2), ADDI(17, 0, 63),
                  ECALL, mem_word(ld, 0, 57 + d) >> \o ExitSeq, 16, WkNone, 96) :
        ld \in {"lb", "lhu", "lw"}, d \in {0, 1}}

\* mul, mulh, mulhsu and mulhu over operands of both signs
MulOperands ==
    {<< 0, 0 >>, << 0, 1 >>, << 0, 0 - 1 >>, << 0, 0 - 7 >>, << INT_MIN, 0 >>,
     << INT_MIN, 0 - 1 >>, << 305418240, 1656 >>, << 0 - 559038464, 0 - 273 >>}

MulCases ==
    {BinCase(a, b, enc_r(51, f3, 1, 7, 5, 6)) :
        a \in MulOperands, b \in MulOperands, f3 \in 0 .. 3}

\* ft1 and ft2 are loaded from four data words that follow the code in the
\* segment (at 36 .. 51), and one FP instruction follows.  A single operand
\* is the word at 36 or 44, a double the pair << hi, lo >> at 36 and 44.
FpCase(double, a, b, w) ==
    Case(<< (IF double THEN FLD(1, 0, 36) ELSE FLW(1, 0, 36)),
            (IF double THEN FLD(2, 0, 44) ELSE FLW(2, 0, 44)),
            w >> \o ExitSeq \o << a[2], a[1], b[2], b[1] >>, 16, WkNone, 96)

\* +0, -0, 1, -1, +inf, -inf, a quiet NaN, a negative signaling NaN and the
\* least subnormal, as singles and as doubles
SingleValues ==
    {<< 0, 0 >>, << 0, INT_MIN >>, << 0, 1065353216 >>, << 0, 0 - 1082130432 >>,
     << 0, 2139095040 >>, << 0, 0 - 8388608 >>, << 0, 2143289344 >>,
     << 0, 0 - 8388607 >>, << 0, 1 >>}

DoubleValues ==
    {<< 0, 0 >>, << INT_MIN, 0 >>, << 1072693248, 0 >>, << 0 - 1074790400, 0 >>,
     << 2146435072, 0 >>, << 0 - 1048576, 0 >>, << 2146959360, 0 >>,
     << 0 - 1048576, 1 >>, << 0, 1 >>}

SignCases ==
    {FpCase(FALSE, a, b, enc_r(83, f3, 16, 3, 1, 2)) :
        a \in SingleValues, b \in SingleValues, f3 \in 0 .. 2}
    \cup {FpCase(TRUE, a, b, enc_r(83, f3, 17, 3, 1, 2)) :
        a \in DoubleValues, b \in DoubleValues, f3 \in 0 .. 2}

\* fclass over a pattern of every class: infinities, normals (1 and the
\* greatest), subnormals (the least and the greatest), zeros, and NaNs with
\* the top fraction bit clear and set, of both signs
ClassSingles ==
    LET pos == {0, 1, 8388607, 8388608, 1065353216, 2139095039, 2139095040,
                2139095041, 2143289343, 2143289344, 2147483647}
    IN  {<< 0, x >> : x \in pos} \cup {<< 0, x - 2147483647 - 1 >> : x \in pos}

ClassDoubles ==
    LET pos == {<< 0, 0 >>, << 0, 1 >>, << 1048575, 0 - 1 >>, << 1048576, 0 >>,
                << 1072693248, 0 >>, << 2146435071, 0 - 1 >>, << 2146435072, 0 >>,
                << 2146435072, 1 >>, << 2146435072, INT_MIN >>, << 2146959359, 0 - 1 >>,
                << 2146959360, 0 >>, << 2147483647, 0 - 1 >>}
    IN  pos \cup {<< x[1] - 2147483647 - 1, x[2] >> : x \in pos}

ClassCases ==
    {FpCase(FALSE, a, << 0, 0 >>, enc_r(83, 1, 112, d, 1, 0)) :
        a \in ClassSingles, d \in {6, 0}}
    \cup {FpCase(TRUE, a, << 0, 0 >>, enc_r(83, 1, 113, 6, 1, 0)) : a \in ClassDoubles}

\* t0 is moved to ft3 (funct7 0x78) and ft3 back to t1 (funct7 0x70)
MoveCases ==
    {Case(<< LUI(5, v[1]), ADDI(5, 5, v[2]), enc_r(83, 0, 120, 3, 5, 0),
             enc_r(83, 0, 112, 6, 3, 0) >> \o ExitSeq, 16, WkNone, 96) :
        v \in {<< 0, 0 >>, << 0, 0 - 1 >>, << INT_MIN, 0 >>, << INT_MIN, 0 - 1 >>,
               << 1065353216, 0 >>, << 2139095040, 0 >>, << 2139095040, 1 >>,
               << 2143289344, 0 >>, << 0 - 4194304, 0 >>, << 0 - 8388608, 1 >>,
               << 0 - 559038464, 0 - 273 >>}}

\* ebreak (also with rd and rs1 set), words no arm of the decoder takes, and
\* the two moves between a double and an integer register
FatalWords ==
    {enc_i(115, 0, 0, 0, 1), enc_i(115, 0, 5, 6, 1), 0, 0 - 1, enc_r(51, 0, 32, 5, 6, 7) + 4096,
     enc_r(83, 0, 113, 6, 3, 0), enc_r(83, 0, 121, 3, 5, 0)}

FatalCases ==
    {Case(<< ADDI(10, 0, 7), w >> \o ExitSeq, 16, WkNone, 96) : w \in FatalWords}

\* The exit sequence in arenas of 32 to 256 bytes (--size is rounded down to
\* a multiple of 16).
SizeCases ==
    {Case(<< ADDI(10, 2, 0) >> \o ExitSeq, 16, WkNone, req) :
        req \in {40, 100, 127, 128, 129, 143, 144, 160, 255, 256}}

\* Entry points that are no multiple of 4, odd ones among them.
EntryCases ==
    {Case(<< w >> \o ExitSeq, entry, WkNone, 96) :
        w \in {ADDI(10, 0, 7), JAL(5, 4), JALR(5, 0, 20), BEQ(0, 0, 4)},
        entry \in {17, 18, 19}}

\* A call to 44, an address two neighbours of the intercept table share.
SharedCases ==
    {Case(<< ADDI(10, 0, 60), ADDI(11, 0, 16), ADDI(12, 0, 3), JAL(1, 16) >>
          \o ExitSeq, 16, table, 96) :
        table \in {Wk(44, 44, 0, 0, 0), Wk(0, 44, 44, 0, 0), Wk(0, 0, 44, 44, 0),
                   Wk(0, 0, 0, 44, 44)}}

\* A segment whose size (p_memsz) is no multiple of 4: three whole words at
\* 16 .. 27 and two or three more bytes, entered at or sent to the bytes
\* behind the last whole word.
TailCases ==
    {[Case(<< w >> \o ExitSeq, entry, WkNone, 96) EXCEPT !.words = << w >> \o ExitSeq]
        @@ [tail |-> t] :
        w \in {JAL(0, 14), JALR(0, 0, 31), JAL(0, 6), ADDI(10, 0, 7)},
        entry \in {16, 30},
        t \in {<< 19, 0 >>, << 19, 0, 0 >>}}

\* +0, -0, 1, -3, 4, 1.5, +inf and a quiet NaN as singles and as doubles
ArithSingles ==
    {<< 0, 0 >>, << 0, INT_MIN >>, << 0, 1065353216 >>, << 0, 0 - 1069547520 >>,
     << 0, 1082130432 >>, << 0, 1069547520 >>, << 0, 2139095040 >>,
     << 0, 2143289344 >>}

ArithDoubles ==
    {<< 0, 0 >>, << INT_MIN, 0 >>, << 1072693248, 0 >>, << 0 - 1073217536, 0 >>,
     << 1074790400, 0 >>, << 1073217536, 0 >>, << 2146435072, 0 >>,
     << 2146959360, 0 >>}

\* (funct7, funct3) of fadd, fsub, fmul, fdiv, fsqrt, fmin, fmax, fle, flt,
\* feq and fcvt.s.d as singles; the doubles have funct7 + 1
ArithCodes ==
    {<< 0, 0 >>, << 4, 0 >>, << 8, 0 >>, << 12, 0 >>, << 44, 0 >>, << 20, 0 >>,
     << 20, 1 >>, << 80, 0 >>, << 80, 1 >>, << 80, 2 >>, << 32, 0 >>}

\* One FP operation f6 (or x6) <- ft1 op ft2, second operands +0, 1, -3,
\* +inf and NaN; fsqrt and the conversions have rs2 = 0.
ArithCases ==
    {FpCase(FALSE, a, b, enc_r(83, c[2], c[1], 6, 1, IF c[1] \in {44, 32} THEN 0 ELSE 2)) :
        a \in ArithSingles,
        b \in {<< 0, 0 >>, << 0, 1065353216 >>, << 0, 0 - 1069547520 >>,
               << 0, 2139095040 >>, << 0, 2143289344 >>},
        c \in ArithCodes}
    \cup {FpCase(TRUE, a, b,
                 enc_r(83, c[2], c[1] + 1, 6, 1, IF c[1] \in {44, 32} THEN 0 ELSE 2)) :
        a \in ArithDoubles,
        b \in {<< 0, 0 >>, << 1072693248, 0 >>, << 0 - 1073217536, 0 >>,
               << 2146435072, 0 >>, << 2146959360, 0 >>},
        c \in ArithCodes}

\* The fused operations f6 <- ft1 * ft2 (+/-) ft1: opcodes 67, 71, 75, 79 are
\* fmadd, fmsub, fnmsub, fnmadd; funct7 is rs3 * 4 + sz.
FusedCases ==
    {FpCase(FALSE, a, b, enc_r(opcode, 0, 4, 6, 1, 2)) :
        opcode \in {67, 71, 75, 79},
        a \in {<< 0, 1065353216 >>, << 0, 1082130432 >>},
        b \in {<< 0, 0 - 1069547520 >>, << 0, 1065353216 >>}}
    \cup {FpCase(TRUE, a, b, enc_r(opcode, 0, 5, 6, 1, 2)) :
        opcode \in {67, 71, 75, 79},
        a \in {<< 1072693248, 0 >>, << 1074790400, 0 >>},
        b \in {<< 0 - 1073217536, 0 >>, << 1072693248, 0 >>}}

\* An integer converted to a float (funct7 104 single, 105 double; rs2 = 1
\* unsigned) and a float converted back (funct7 96, 97).
CvtCases ==
    {Case(<< LUI(5, v[1]), ADDI(5, 5, v[2]), enc_r(83, 0, from, 3, 5, u),
             enc_r(83, 0, from - 8, 6, 3, w) >> \o ExitSeq, 16, WkNone, 96) :
        v \in {<< 0, 0 >>, << 0, 7 >>, << 0, 0 - 7 >>, << INT_MIN, 0 >>,
               << 16777216, 1 >>, << 0 - 16777216, 0 >>},
        from \in {104, 105}, u \in {0, 1}, w \in {0, 1}}

\* An intercepted memset, memcpy or memmove (the routine is at 44) whose
\* ranges lie in the text segment, where the bytes differ from each other:
\* apart, overlapping with the destination above and below the source.
CopyCases ==
    {Case(<< ADDI(10, 0, dst), ADDI(11, 0, src), ADDI(12, 0, n), JAL(1, 16) >>
          \o ExitSeq, 16, table, 96) :
        dst \in {16, 18, 60}, src \in {16, 18, 20, 385}, n \in {0, 3, 8},
        table \in {Wk(44, 0, 0, 0, 0), Wk(0, 44, 0, 0, 0), Wk(0, 0, 44, 0, 0)}}

Cases ==
    ExitCases \cup MemCases \cup X0Cases \cup CallCases \cup JumpCases \cup IoCases
    \cup CsrCases \cup DivCases \cup BranchCases \cup ShiftCases
    \cup StoreLoadCases \cup LoadAfterCases \cup MulCases \cup SignCases
    \cup ClassCases \cup MoveCases \cup FatalCases \cup CopyCases
    \cup ArithCases \cup FusedCases \cup CvtCases \cup SizeCases \cup EntryCases \cup SharedCases \cup TailCases

RECURSIVE words_bytes(_)
words_bytes(ws) ==
    IF ws = << >> THEN << >> ELSE le_bytes32(Head(ws)) \o words_bytes(Tail(ws))

(***************************************************************************)
(* Construction: Memory::new and Core32::new                               *)
(***************************************************************************)
\* The most loop iterations of run the model follows.
MaxSteps == 12

\* Memory::new: the arena is the 16-byte aligned part of a buffer of req
\* bytes filled with 0xBE (the buffer itself is 16-byte aligned, as the
\* system allocator returns it), with the segment copied to its address.
\* The segment must end strictly below the arena's end (assert!).
Memory_size(req) == (req \div 16) * 16

Memory_new(vaddr, bytes, req) ==
    [a \in 0 .. Memory_size(req) - 1 |->
        IF a >= vaddr /\ a < vaddr + Len(bytes) THEN bytes[a - vaddr + 1] ELSE 190]

\* what the latest loop iteration did: the pc it fetched at, the instruction,
\* the arm of run's match it took, the host routine it ran, the target of
\* the transfer, and whether a block primitive was handed a range that is
\* not inside the arena
NoStep == [pc |-> 0, instr |-> [op |-> "None"], arm |-> "none", host |-> "none",
           target |-> 0, oob |-> FALSE]

\* The state Core32::new leaves: pc at the entry point, which find_segment
\* must locate inside the segment (expect).
InitOf(c) ==
        LET bytes == words_bytes(c.words)
                     \o (IF "tail" \in DOMAIN c THEN c.tail ELSE << >>)
        IN  /\ c.vaddr + Len(bytes) < Memory_size(c.req)
            /\ c.entry >= c.vaddr /\ c.entry < c.vaddr + Len(bytes)
            /\ pc = c.entry
            /\ registers = Regfile_new
            /\ fp_registers = FpRegfile_new
            /\ fcsr = Fcsr_default
            /\ data = Memory_new(c.vaddr, bytes, c.req)
            /\ size = Memory_size(c.req)
            /\ text = [vaddr |-> c.vaddr, data |-> bytes]
            /\ ins_cache = << >>
            /\ wk = c.wk
            /\ status = "new"
            /\ return_code = 0
            /\ exit_code = 0
            /\ host_oob = FALSE
            /\ host_calls = 0
            /\ steps = 0
            /\ last = NoStep

Init == \E c \in Cases : InitOf(c)

(***************************************************************************)
(* Core32::run                                                             *)
(***************************************************************************)
\* A stack pointer at the aligned top of the arena.
initial_sp_top(sz) == sz - (sz % 16)

\* (self.memory.size() as i32 - 128) & !0xF
initial_sp(sz) == (sz - 128) - ((sz - 128) % 16)

\* the prologue of run: sp is written and the text segment is decoded, one
\* record per whole word
run_start ==
    /\ status = "new"
    /\ registers' = write(registers, Sp, initial_sp(size))
    /\ ins_cache' = [i \in 1 .. (Len(text.data) \div 4) |->
                        decode(from_le32(SubSeq(text.data, 4 * i - 3, 4 * i)))]
    /\ status' = "running"
    /\ UNCHANGED << pc, fp_registers, fcsr, data, size, text, wk, return_code,
                    exit_code, host_oob, host_calls, steps, last >>

Running == status = "running" /\ steps < MaxSteps

\* rel_pc / 4 indexes the cache: pc - vaddr does not wrap below zero and the
\* index is less than ins_cache.len()
in_cache == pc >= text.vaddr /\ (pc - text.vaddr) \div 4 < Len(ins_cache)

\* *ins_cache.get_unchecked(rel_pc / 4)
fetched == ins_cache[((pc - text.vaddr) \div 4) + 1]

\* A chain of comparisons that starts from sin and ends with memset.
intercept_reversed(target) ==
    IF target = wk.sin THEN "sin"
    ELSE IF target = wk.cos THEN "cos"
    ELSE IF target = wk.memmove THEN "memmove"
    ELSE IF target = wk.memcpy THEN "memcpy"
    ELSE IF target = wk.memset THEN "memset"
    ELSE "none"

\* the first intercept the chain of comparisons in the Call arm selects
intercept(target) ==
    IF target = wk.memset THEN "memset"
    ELSE IF target = wk.memcpy THEN "memcpy"
    ELSE IF target = wk.memmove THEN "memmove"
    ELSE IF target = wk.cos THEN "cos"
    ELSE IF target = wk.sin THEN "sin"
    ELSE "none"

\* A loop iteration that decodes the cache again from the arena, so that a
\* store into the text segment changes the instruction executed later.
Advance_coherent(instr, r, arm, host, new_pc, new_mem, new_fregs, oob, new_status, rc) ==
    /\ pc' = new_pc
    /\ registers' = r.regs
    /\ fp_registers' = new_fregs
    /\ fcsr' = r.csr
    /\ data' = new_mem
    /\ status' = new_status
    /\ return_code' = rc
    /\ host_oob' = (host_oob \/ (oob /\ new_status = "running"))
    /\ host_calls' = IF host = "none" THEN host_calls ELSE host_calls + 1
    /\ steps' = steps + 1
    /\ last' = [pc |-> pc, instr |-> instr, arm |-> arm, host |-> host,
                target |-> r.target, oob |-> oob]
    /\ ins_cache' = [i \in 1 .. Len(ins_cache) |->
                        decode(from_le32(read_bytes(new_mem, text.vaddr + 4 * (i - 1), 4)))]
    /\ UNCHANGED << size, text, wk, exit_code >>

\* one loop iteration that executed instr with outcome r
Advance(instr, r, arm, host, new_pc, new_mem, new_fregs, oob, new_status, rc) ==
    /\ pc' = new_pc
    /\ registers' = r.regs
    /\ fp_registers' = new_fregs
    /\ fcsr' = r.csr
    /\ data' = new_mem
    /\ status' = new_status
    /\ return_code' = rc
    /\ host_oob' = (host_oob \/ (oob /\ new_status = "running"))
    /\ host_calls' = IF host = "none" THEN host_calls ELSE host_calls + 1
    /\ steps' = steps + 1
    /\ last' = [pc |-> pc, instr |-> instr, arm |-> arm, host |-> host,
                target |-> r.target, oob |-> oob]
    /\ UNCHANGED << size, text, ins_cache, wk, exit_code >>

\* ExecResult::Jump(pc) => self.pc = pc
run_Jump ==
    /\ Running /\ in_cache
    /\ \E r \in exec(fetched) :
        /\ r.kind = "Jump"
        /\ Advance(fetched, r, "Jump", "none", r.target, r.mem, r.fregs, FALSE,
                   "running", return_code)

\* ExecResult::Continue => self.pc += 4
run_Continue ==
    /\ Running /\ in_cache
    /\ \E r \in exec(fetched) :
        /\ r.kind = "Continue"
        /\ Advance(fetched, r, "Continue", "none", wrapping_add(pc, 4), r.mem,
                   r.fregs, FALSE, "running", return_code)

\* get_exit_info: RunInfo { return_code: self.read(Register::A(0)) }
get_exit_info(regs) == [return_code |-> read(regs, A(0))]

\* ExecResult::Exit => return self.get_exit_info()
run_Exit ==
    /\ Running /\ in_cache
    /\ \E r \in exec(fetched) :
        /\ r.kind = "Exit"
        /\ Advance(fetched, r, "Exit", "none", pc, r.mem, r.fregs, FALSE,
                   "returned", get_exit_info(r.regs).return_code)

\* a panic inside exec ends the process
run_Panic ==
    /\ Running /\ in_cache
    /\ \E r \in exec(fetched) :
        /\ r.kind = "Panic"
        /\ Advance(fetched, r, "Panic", "none", pc, r.mem, r.fregs, FALSE,
                   "panicked", return_code)

\* A self-call that reports the guest's a0 instead of 0.
loop_info_a0(regs) == [return_code |-> read(regs, A(0))]

\* the RunInfo of the idle loop: RunInfo { return_code: 0 }
loop_info(regs) == [return_code |-> 0]

\* ExecResult::Call(pc) with self.pc == pc: return RunInfo { return_code: 0 }
run_Call_loop ==
    /\ Running /\ in_cache
    /\ \E r \in exec(fetched) :
        /\ r.kind = "Call" /\ r.target = pc
        /\ Advance(fetched, r, "Call_loop", "none", pc, r.mem, r.fregs, FALSE,
                   "returned", loop_info(r.regs).return_code)

\* a Call that is not a self-call and whose target selects intercept name
Intercepted(r, name) ==
    r.kind = "Call" /\ r.target # pc /\ intercept(r.target) = name

\* An intercept that goes on at the call's target.
return_pc_target(r) == r.target

\* the end of every intercept arm: self.pc = self.read(Register::Ra) as u32
return_pc(r) == read(r.regs, Ra)

\* A block intercept that comes back with a2 counted down to 0, as a routine
\* run by the guest would.
Return_counted(r, name, b) ==
    LET q == [r EXCEPT !.regs = write(r.regs, A(2), 0)]
    IN  IF b.kind = "crash"
        THEN Advance(fetched, q, "Call_host", name, pc, b.mem, q.fregs, b.oob,
                     "crashed", return_code)
        ELSE Advance(fetched, q, "Call_host", name, return_pc(q), b.mem,
                     q.fregs, b.oob, "running", return_code)

\* the rest of a block intercept's arm, unless the primitive brought the
\* process down
Return(r, name, b) ==
    IF b.kind = "crash"
    THEN Advance(fetched, r, "Call_host", name, pc, b.mem, r.fregs, b.oob,
                 "crashed", return_code)
    ELSE Advance(fetched, r, "Call_host", name, return_pc(r), b.mem,
                 r.fregs, b.oob, "running", return_code)

run_Call_memset ==
    /\ Running /\ in_cache
    /\ \E r \in exec(fetched) :
        /\ Intercepted(r, "memset")
        /\ \E b \in memset(r.mem, read(r.regs, A(0)), read(r.regs, A(1)),
                           read(r.regs, A(2))) :
            Return(r, "memset", b)

run_Call_memcpy ==
    /\ Running /\ in_cache
    /\ \E r \in exec(fetched) :
        /\ Intercepted(r, "memcpy")
        /\ \E b \in memcpy(r.mem, read(r.regs, A(0)), read(r.regs, A(1)),
                           read(r.regs, A(2))) :
            Return(r, "memcpy", b)

run_Call_memmove ==
    /\ Running /\ in_cache
    /\ \E r \in exec(fetched) :
        /\ Intercepted(r, "memmove")
        /\ \E b \in memmove(r.mem, read(r.regs, A(0)), read(r.regs, A(1)),
                            read(r.regs, A(2))) :
            Return(r, "memmove", b)

run_Call_cos ==
    /\ Running /\ in_cache
    /\ \E r \in exec(fetched) :
        /\ Intercepted(r, "cos")
        /\ \E y \in f64_cos(read_double(r.fregs, 10)) :
            Advance(fetched, r, "Call_host", "cos", return_pc(r), r.mem,
                    write_double(r.fregs, 10, y), FALSE, "running", return_code)

run_Call_sin ==
    /\ Running /\ in_cache
    /\ \E r \in exec(fetched) :
        /\ Intercepted(r, "sin")
        /\ \E y \in f64_sin(read_double(r.fregs, 10)) :
            Advance(fetched, r, "Call_host", "sin", return_pc(r), r.mem,
                    write_double(r.fregs, 10, y), FALSE, "running", return_code)

\* the final else of the Call arm: self.pc = pc
run_Call_other ==
    /\ Running /\ in_cache
    /\ \E r \in exec(fetched) :
        /\ Intercepted(r, "none")
        /\ Advance(fetched, r, "Call_other", "none", r.target, r.mem, r.fregs,
                   FALSE, "running", return_code)

\* pc - vaddr wraps or rel_pc / 4 is not an index of ins_cache: the
\* unchecked read is undefined.  The build may trap (the subtraction
\* overflow check of an unoptimised build, or a fault of the host), or go on
\* with whatever the host memory beside the cache holds; the model does not
\* follow the program further.
FetchOutcome == {"panicked", "crashed", "astray"}

run_fetch_outside ==
    /\ Running /\ ~in_cache
    /\ status' \in FetchOutcome
    /\ steps' = steps + 1
    /\ last' = [pc |-> pc, instr |-> [op |-> "None"], arm |-> "fetch_outside",
                host |-> "none", target |-> 0, oob |-> FALSE]
    /\ UNCHANGED << pc, registers, fp_registers, fcsr, data, size, text,
                    ins_cache, wk, return_code, exit_code, host_oob, host_calls >>

\* A conversion that saturates instead of truncating.
as_u8_saturating(x) == IF x < 0 THEN 0 ELSE IF x > 255 THEN 255 ELSE x

\* i32 as u8
as_u8(x) == x % 256

\* main: ExitCode::from(info.return_code as u8)
main_exit ==
    /\ status = "returned"
    /\ exit_code' = as_u8(return_code)
    /\ status' = "exited"
    /\ UNCHANGED << pc, registers, fp_registers, fcsr, data, size, text,
                    ins_cache, wk, return_code, host_oob, host_calls, steps, last >>

Next ==
    \/ run_start
    \/ run_Jump
    \/ run_Continue
    \/ run_Exit
    \/ run_Panic
    \/ run_Call_loop
    \/ run_Call_memset
    \/ run_Call_memcpy
    \/ run_Call_memmove
    \/ run_Call_cos
    \/ run_Call_sin
    \/ run_Call_other
    \/ run_fetch_outside
    \/ main_exit

Spec == Init /\ [][Next]_vars

(***************************************************************************)
(* Properties                                                              *)
(***************************************************************************)
\* the step from this state executes the cached instruction at pc
Executes == steps' = steps + 1 /\ in_cache

\* C1: reading integer register 0 yields 0 in every state, and an
\* instruction whose destination is x0 leaves the integer register file as
\* it was.
C1_ZeroRegister ==
    [][ /\ read(registers', 0) = 0
        /\ (Executes /\ "rd" \in DOMAIN fetched /\ fetched.rd = 0)
              => registers' = registers ]_vars

\* a program that wrote to x0 with addi, lui, lw, jal and jalr and then read
\* it back as 0 has exited
C1_Witness ==
    /\ last.arm = "Exit"
    /\ read(registers, 5) = 0 /\ read(registers, 6) = 9
    /\ read(registers, 0) = 0

\* C2: an ecall with a7 = 93 ends run at once with the status held in a0,
\* and the exit code of the process is that status modulo 256 (7 gives 7,
\* -1 gives 255, -2^31 gives 0).
C2_ExitStatus ==
    [][ /\ (Executes /\ fetched.op = "Ecall" /\ read(registers, 17) = 93)
              => /\ status' = "returned"
                 /\ return_code' = read(registers, 10)
                 /\ registers' = registers /\ data' = data /\ pc' = pc
        /\ (status' = "exited" /\ last'.arm = "Exit")
              => /\ exit_code' \in 0 .. 255
                 /\ exit_code' = return_code' % 256
                 /\ return_code' = 7 => exit_code' = 7
                 /\ return_code' = 0 - 1 => exit_code' = 255
                 /\ return_code' = INT_MIN => exit_code' = 0
                 /\ return_code' = 300 => exit_code' = 44 ]_vars

C2_Witness ==
    /\ status = "exited" /\ last.arm = "Exit" /\ last.instr.op = "Ecall"
    /\ read(registers, 17) = 93 /\ read(registers, 10) = 0 - 1
    /\ return_code = 0 - 1 /\ exit_code = 255

\* the outcomes that end the process
Fatal == {"panicked", "crashed"}

\* C3: a memory operation whose range is not inside the arena is fatal and
\* touches no byte outside the arena, the intercepted memset, memcpy and
\* memmove included.
C3_OutOfRangeIsFatal ==
    (last.oob /\ last.target # 0) => (status \in Fatal /\ ~host_oob)

TypedOps == {"Lb", "Lh", "Lw", "Lbu", "Lhu", "Flw", "Fld", "Sb", "Sh", "Sw", "Fsw", "Fsd"}

size_of(op) ==
    CASE op \in {"Lb", "Lbu", "Sb"} -> 1
      [] op \in {"Lh", "Lhu", "Sh"} -> 2
      [] op \in {"Lw", "Flw", "Sw", "Fsw"} -> 4
      [] op \in {"Fld", "Fsd"} -> 8

\* C4: a typed load or store at effective address a (an unsigned number)
\* with a + sizeof(T) > size aborts the run and leaves the arena as it was;
\* otherwise it succeeds and no byte outside [a, a + sizeof(T)) changes.
C4_TypedAccessBounds ==
    [][ (Executes /\ fetched.op \in TypedOps) =>
            LET a == eff_addr(fetched)
                n == size_of(fetched.op)
            IN  IF a < 0 \/ a > size - n
                THEN status' = "panicked" /\ data' = data
                ELSE /\ status' = "running"
                     /\ \A b \in DOMAIN data :
                            (b < a \/ b >= a + n) => data'[b] = data[b]
                     /\ fetched.op \in {"Lb", "Lh", "Lw", "Lbu", "Lhu", "Flw", "Fld"}
                            => data' = data ]_vars

\* a word store whose last byte alone lies beyond the arena has aborted
C4_Witness ==
    /\ last.arm = "Panic" /\ status = "panicked"
    /\ last.instr.op = "Sw" /\ last.instr.rs1 = 0
    /\ last.instr.imm = size - 3

\* the addresses the loader recorded for symbols the ELF has
intercept_addresses == {wk.memset, wk.memcpy, wk.memmove, wk.cos, wk.sin} \ {0}

\* fetched is a jal or jalr with rd = x1 that does not target its own pc
CallElsewhere ==
    fetched.op \in {"Jal", "Jalr"} /\ fetched.rd = 1 /\ jump_target(fetched) # pc

\* C5: whenever pc equals a recorded nonzero intercept address, however
\* control arrived there, the step runs the host routine of that symbol
\* instead of interpreting the guest instruction at pc.
C5_InterceptWhereverPcArrives ==
    [][ (Executes /\ pc \in intercept_addresses)
            => (last'.arm = "Call_host" /\ last'.host = intercept(pc)) ]_vars

\* C5, as the engine has it: a host routine runs exactly in the step that
\* executes a jal or jalr with rd = x1 whose target is not its own pc and
\* equals an entry of the intercept table (the first in the order memset,
\* memcpy, memmove, cos, sin); every other step, one at an intercept address
\* included, has the effect of the guest instruction at pc.
C5_InterceptOnCallOnly ==
    [][ Executes =>
            LET hit == CallElsewhere /\ intercept(jump_target(fetched)) # "none"
            IN  /\ hit => /\ last'.arm = "Call_host"
                          /\ last'.host = intercept(jump_target(fetched))
                          /\ host_calls' = host_calls + 1
                /\ ~hit => /\ last'.host = "none"
                           /\ host_calls' = host_calls
                           /\ last'.instr = fetched
                           /\ \E r \in exec(fetched) :
                                 /\ registers' = r.regs
                                 /\ fp_registers' = r.fregs
                                 /\ data' = r.mem ]_vars

\* control reached the address recorded for memset without a call and the
\* guest's own instruction there was executed
C5_Witness ==
    /\ wk.memset = 40 /\ last.pc = 40 /\ last.pc \in intercept_addresses
    /\ last.arm = "Continue" /\ last.instr.op = "Addi"
    /\ last.host = "none" /\ host_calls = 0
    /\ read(registers, 6) = 1

\* C6: the instruction cache is transparent: executing the cached
\* instruction at pc has the outcome of decoding and executing the word
\* that the arena holds at pc at that moment, also after stores into the
\* text segment.
C6_CacheTransparent ==
    (Running /\ in_cache /\ pc % 4 = 0)
        => exec(fetched) = exec(decode(load32(data, pc)))

\* C7: with pc outside the text segment the engine decodes the word of the
\* arena at pc and never indexes the cache outside its bounds.
C7_FetchOutsideText ==
    [][ (Running /\ ~in_cache /\ steps' = steps + 1)
            => /\ last'.arm # "fetch_outside"
               /\ last'.instr = decode(load32(data, pc)) ]_vars

\* C8: a jal or jalr with rd = x1 whose target is its own pc makes run
\* return status 0 whatever a0 holds; with another rd the run goes on, at
\* the same pc.
C8_SelfCall ==
    [][ (Executes /\ fetched.op \in {"Jal", "Jalr"} /\ jump_target(fetched) = pc)
            => IF fetched.rd = 1
               THEN status' = "returned" /\ return_code' = 0 /\ host_calls' = host_calls
               ELSE status' = "running" /\ pc' = pc ]_vars

\* a self-call has returned 0 while a0 holds 7
C8_Witness ==
    /\ last.arm = "Call_loop" /\ last.target = last.pc
    /\ read(registers, 10) = 7
    /\ status = "returned" /\ return_code = 0

C10_MissingSymbolNeverInvoked ==
    /\ last.host # "none" => wk[last.host] # 0
    /\ (last.arm \in {"Call_host", "Call_other"} /\ last.target = 0)
          => (last.host = "none" /\ pc = 0)

\* C11: fsrm rd, rs1 sets the rounding mode to the value rs1 held before
\* the instruction and writes the previous rounding mode to rd, for every
\* rd and rs1, rd = rs1 included.
C11_FsrmSwaps ==
    [][ ( /\ Executes /\ fetched.op = "Fsrm"
          /\ RoundingMode_ok(read(registers, fetched.rs1)) )
            => /\ status' = "running"
               /\ fcsr'.rm = read(registers, fetched.rs1)
               /\ fetched.rd # 0 => read(registers', fetched.rd) = fcsr.rm ]_vars

\* C12: fsrm with a source value of 5 or 6 is fatal and leaves the rounding
\* mode as it was, and the rounding mode is one of 0, 1, 2, 3, 4, 7 in every
\* state.
C12_ReservedRoundingMode ==
    [][ /\ ( /\ Executes /\ fetched.op = "Fsrm"
             /\ read(registers, fetched.rs1) \in {5, 6} )
               => (status' = "panicked" /\ fcsr'.rm = fcsr.rm)
        /\ fcsr'.rm \in {0, 1, 2, 3, 4, 7} ]_vars

(***************************************************************************)
(* The reference encoder: the standard RISC-V encoding of each operation   *)
(* record (RV32IMFD and Zicsr's frrm and fsrm).                            *)
(***************************************************************************)
\* funct3 of the branches, loads, stores and register-immediate operations
funct3_of(op) ==
    CASE op \in {"Beq", "Lb", "Sb", "Addi"} -> 0
      [] op \in {"Bne", "Lh", "Sh", "Slli"} -> 1
      [] op \in {"Lw", "Sw", "Slti", "Flw", "Fsw"} -> 2
      [] op \in {"Sltiu", "Fld", "Fsd"} -> 3
      [] op \in {"Blt", "Lbu", "Xori"} -> 4
      [] op \in {"Bge", "Lhu", "Srli", "Srai"} -> 5
      [] op \in {"Bltu", "Ori"} -> 6
      [] op \in {"Bgeu", "Andi"} -> 7

\* << opcode, funct3, funct7 >> of the operations with three registers and a
\* fixed funct3
r_codes(op) ==
    CASE op = "Add" -> << 51, 0, 0 >>     [] op = "Sub" -> << 51, 0, 32 >>
      [] op = "Sll" -> << 51, 1, 0 >>     [] op = "Slt" -> << 51, 2, 0 >>
      [] op = "Sltu" -> << 51, 3, 0 >>    [] op = "Xor" -> << 51, 4, 0 >>
      [] op = "Srl" -> << 51, 5, 0 >>     [] op = "Sra" -> << 51, 5, 32 >>
      [] op = "Or" -> << 51, 6, 0 >>      [] op = "And" -> << 51, 7, 0 >>
      [] op = "Mul" -> << 51, 0, 1 >>     [] op = "Mulh" -> << 51, 1, 1 >>
      [] op = "Mulhsu" -> << 51, 2, 1 >>  [] op = "Mulhu" -> << 51, 3, 1 >>
      [] op = "Div" -> << 51, 4, 1 >>     [] op = "Divu" -> << 51, 5, 1 >>
      [] op = "Rem" -> << 51, 6, 1 >>     [] op = "Remu" -> << 51, 7, 1 >>
      [] op = "Fsgnj_s" -> << 83, 0, 16 >>   [] op = "Fsgnjn_s" -> << 83, 1, 16 >>
      [] op = "Fsgnjx_s" -> << 83, 2, 16 >>  [] op = "Fsgnj_d" -> << 83, 0, 17 >>
      [] op = "Fsgnjn_d" -> << 83, 1, 17 >>  [] op = "Fsgnjx_d" -> << 83, 2, 17 >>
      [] op = "Fmin_s" -> << 83, 0, 20 >>    [] op = "Fmax_s" -> << 83, 1, 20 >>
      [] op = "Fmin_d" -> << 83, 0, 21 >>    [] op = "Fmax_d" -> << 83, 1, 21 >>
      [] op = "Fle_s" -> << 83, 0, 80 >>     [] op = "Flt_s" -> << 83, 1, 80 >>
      [] op = "Feq_s" -> << 83, 2, 80 >>     [] op = "Fle_d" -> << 83, 0, 81 >>
      [] op = "Flt_d" -> << 83, 1, 81 >>     [] op = "Feq_d" -> << 83, 2, 81 >>

R3Ops ==
    {"Add", "Sub", "Sll", "Slt", "Sltu", "Xor", "Srl", "Sra", "Or", "And",
     "Mul", "Mulh", "Mulhsu", "Mulhu", "Div", "Divu", "Rem", "Remu",
     "Fsgnj_s", "Fsgnjn_s", "Fsgnjx_s", "Fsgnj_d", "Fsgnjn_d", "Fsgnjx_d",
     "Fmin_s", "Fmax_s", "Fmin_d", "Fmax_d",
     "Fle_s", "Flt_s", "Feq_s", "Fle_d", "Flt_d", "Feq_d"}

\* funct7 of the floating-point operations that carry a rounding mode
rm_funct7(op) ==
    CASE op = "Fadd_s" -> 0   [] op = "Fsub_s" -> 4   [] op = "Fmul_s" -> 8
      [] op = "Fdiv_s" -> 12  [] op = "Fsqrt_s" -> 44
      [] op = "Fadd_d" -> 1   [] op = "Fsub_d" -> 5   [] op = "Fmul_d" -> 9
      [] op = "Fdiv_d" -> 13  [] op = "Fsqrt_d" -> 45

RmOps == {"Fadd_s", "Fsub_s", "Fmul_s", "Fdiv_s", "Fadd_d", "Fsub_d", "Fmul_d", "Fdiv_d"}

\* << funct3, funct7, rs2 field >> of the two-register floating-point
\* operations; the conversions are given the dynamic rounding mode
r2_codes(op) ==
    CASE op = "Fcvt_w_s" -> << 7, 96, 0 >>   [] op = "Fcvt_wu_s" -> << 7, 96, 1 >>
      [] op = "Fcvt_s_w" -> << 7, 104, 0 >>  [] op = "Fcvt_s_wu" -> << 7, 104, 1 >>
      [] op = "Fcvt_w_d" -> << 7, 97, 0 >>   [] op = "Fcvt_wu_d" -> << 7, 97, 1 >>
      [] op = "Fcvt_d_w" -> << 7, 105, 0 >>  [] op = "Fcvt_d_wu" -> << 7, 105, 1 >>
      [] op = "Fcvt_s_d" -> << 7, 32, 1 >>   [] op = "Fcvt_d_s" -> << 7, 33, 0 >>
      [] op = "Fmv_s_w" -> << 0, 112, 0 >>   [] op = "Fmv_w_s" -> << 0, 120, 0 >>
      [] op = "Fclass_s" -> << 1, 112, 0 >>  [] op = "Fclass_d" -> << 1, 113, 0 >>
      [] op = "Fmv_x_d" -> << 0, 113, 0 >>   [] op = "Fmv_d_x" -> << 0, 121, 0 >>

R2Ops ==
    {"Fcvt_w_s", "Fcvt_wu_s", "Fcvt_s_w", "Fcvt_s_wu", "Fcvt_w_d", "Fcvt_wu_d",
     "Fcvt_d_w", "Fcvt_d_wu", "Fcvt_s_d", "Fcvt_d_s", "Fmv_s_w", "Fmv_w_s",
     "Fclass_s", "Fclass_d", "Fmv_x_d", "Fmv_d_x"}

\* << opcode, format code >> of the fused operations
fused_codes(op) ==
    CASE op = "Fmadd_s" -> << 67, 0 >>   [] op = "Fmadd_d" -> << 67, 1 >>
      [] op = "Fmsub_s" -> << 71, 0 >>   [] op = "Fmsub_d" -> << 71, 1 >>
      [] op = "Fnmsub_s" -> << 75, 0 >>  [] op = "Fnmsub_d" -> << 75, 1 >>
      [] op = "Fnmadd_s" -> << 79, 0 >>  [] op = "Fnmadd_d" -> << 79, 1 >>

FusedOps ==
    {"Fmadd_s", "Fmadd_d", "Fmsub_s", "Fmsub_d", "Fnmsub_s", "Fnmsub_d",
     "Fnmadd_s", "Fnmadd_d"}

encode(i) ==
    CASE i.op = "Lui" -> enc_u(55, i.rd, i.imm)
      [] i.op = "Auipc" -> enc_u(23, i.rd, i.imm)
      [] i.op = "Jal" -> enc_j(111, i.rd, i.imm)
      [] i.op = "Jalr" -> enc_i(103, 0, i.rd, i.rs1, i.imm)
      [] i.op \in {"Beq", "Bne", "Blt", "Bge", "Bltu", "Bgeu"} ->
           enc_b(99, funct3_of(i.op), i.rs1, i.rs2, i.imm)
      [] i.op \in {"Lb", "Lh", "Lw", "Lbu", "Lhu"} ->
           enc_i(3, funct3_of(i.op), i.rd, i.rs1, i.imm)
      [] i.op \in {"Flw", "Fld"} -> enc_i(7, funct3_of(i.op), i.rd, i.rs1, i.imm)
      [] i.op \in {"Sb", "Sh", "Sw"} ->
           enc_s(35, funct3_of(i.op), i.rs1, i.rs2, i.imm)
      [] i.op \in {"Fsw", "Fsd"} -> enc_s(39, funct3_of(i.op), i.rs1, i.rs2, i.imm)
      [] i.op \in {"Addi", "Slti", "Sltiu", "Xori", "Ori", "Andi"} ->
           enc_i(19, funct3_of(i.op), i.rd, i.rs1, i.imm)
      [] i.op \in {"Slli", "Srli", "Srai"} ->
           enc_r(19, funct3_of(i.op), IF i.op = "Srai" THEN 32 ELSE 0,
                 i.rd, i.rs1, i.shamt)
      [] i.op \in R3Ops ->
           enc_r(r_codes(i.op)[1], r_codes(i.op)[2], r_codes(i.op)[3],
                 i.rd, i.rs1, i.rs2)
      [] i.op = "Fence" -> i.pred * Pow2(24) + i.succ * Pow2(20) + 15
      [] i.op = "Fence_i" -> enc_i(15, 1, 0, 0, 0)
      [] i.op = "Ecall" -> enc_i(115, 0, 0, 0, 0)
      [] i.op = "Ebreak" -> enc_i(115, 0, 0, 0, 1)
      [] i.op = "Frrm" -> enc_i(115, 2, i.rd, 0, 2)
      [] i.op = "Fsrm" -> enc_i(115, 1, i.rd, i.rs1, 2)
      [] i.op \in RmOps -> enc_r(83, i.rm, rm_funct7(i.op), i.rd, i.rs1, i.rs2)
      [] i.op \in {"Fsqrt_s", "Fsqrt_d"} ->
           enc_r(83, i.rm, rm_funct7(i.op), i.rd, i.rs1, 0)
      [] i.op \in R2Ops ->
           enc_r(83, r2_codes(i.op)[1], r2_codes(i.op)[2], i.rd, i.rs1,
                 r2_codes(i.op)[3])
      [] i.op \in FusedOps ->
           enc_r(fused_codes(i.op)[1], i.rm, i.rs3 * 4 + fused_codes(i.op)[2],
                 i.rd, i.rs1, i.rs2)

(***************************************************************************)
(* The decoder on its own.  run decodes every word of the text segment     *)
(* before the first instruction executes, so a text of one word w leaves   *)
(* Instruction::decode(w) in the cache.  DecodeSpec draws w from words     *)
(* built field by field; AsmSpec draws it from the reference encodings of  *)
(* the documented operations.                                              *)
(***************************************************************************)
\* the eighteen opcodes the decoder knows and two it does not
DecOpcodes == {55, 23, 111, 103, 99, 3, 35, 19, 51, 15, 115, 83, 67, 71, 75, 79, 7, 39,
               0, 127}

DecodeWords ==
    {enc_r(o, f3, f7, d, a, b) :
        o \in DecOpcodes, f3 \in 0 .. 7, f7 \in {0, 1, 32, 64, 127},
        d \in {0, 5}, a \in {0, 6}, b \in {0, 1, 2, 31}}
    \cup {enc_r(83, f3, f7, 5, 6, b) : f3 \in 0 .. 7, f7 \in 0 .. 127, b \in {0, 1, 2}}

DecodeInit == \E w \in DecodeWords : InitOf(Case(<< w >>, 16, WkNone, 96))

DecodeSpec == DecodeInit /\ [][run_start]_vars

\* the word of the text segment and its entry of the cache, once run has
\* built the cache
the_word == from_le32(SubSeq(text.data, 1, 4))
decoded == ins_cache[1]
Decoded == status = "running" /\ Len(ins_cache) = 1

\* the documented operations with a choice of fields
DocRegs == {0, 5, 31}
DocImm == {0 - 2048, 0 - 1, 0, 1, 2047}
DocRecords ==
    {[op |-> o, rd |-> d, imm |-> m] :
        o \in {"Lui", "Auipc"}, d \in DocRegs, m \in {0, 4096, 0 - 4096, INT_MIN}}
    \cup {[op |-> "Jal", rd |-> d, imm |-> m] :
        d \in DocRegs, m \in {0, 2, 0 - 2, 2048, 1048574, 0 - 1048576}}
    \cup {[op |-> o, rd |-> d, rs1 |-> a, imm |-> m] :
        o \in {"Jalr", "Lb", "Lh", "Lw", "Lbu", "Lhu", "Flw", "Fld",
               "Addi", "Slti", "Sltiu", "Xori", "Ori", "Andi"},
        d \in DocRegs, a \in DocRegs, m \in DocImm}
    \cup {[op |-> o, rs1 |-> a, rs2 |-> b, imm |-> m] :
        o \in {"Beq", "Bne", "Blt", "Bge", "Bltu", "Bgeu"},
        a \in DocRegs, b \in DocRegs, m \in {0 - 4096, 0 - 2, 0, 2, 4094}}
    \cup {[op |-> o, rs1 |-> a, rs2 |-> b, imm |-> m] :
        o \in {"Sb", "Sh", "Sw", "Fsw", "Fsd"},
        a \in DocRegs, b \in DocRegs, m \in DocImm}
    \cup {[op |-> o, rd |-> d, rs1 |-> a, shamt |-> h] :
        o \in {"Slli", "Srli", "Srai"}, d \in DocRegs, a \in DocRegs, h \in {0, 1, 31}}
    \cup {[op |-> o, rd |-> d, rs1 |-> a, rs2 |-> b] :
        o \in R3Ops, d \in DocRegs, a \in DocRegs, b \in DocRegs}
    \cup {[op |-> "Fence", pred |-> x, succ |-> y] : x \in {0, 3, 15}, y \in {0, 3, 15}}
    \cup {[op |-> "Fence_i"], [op |-> "Ecall"], [op |-> "Ebreak"]}
    \cup {[op |-> "Frrm", rd |-> d] : d \in DocRegs}
    \cup {[op |-> "Fsrm", rd |-> d, rs1 |-> a] : d \in DocRegs, a \in DocRegs}
    \cup {[op |-> o, rd |-> d, rs1 |-> a, rs2 |-> b, rm |-> m] :
        o \in RmOps, d \in DocRegs, a \in DocRegs, b \in DocRegs, m \in {0, 1, 7}}
    \cup {[op |-> o, rd |-> d, rs1 |-> a, rm |-> m] :
        o \in {"Fsqrt_s", "Fsqrt_d"}, d \in DocRegs, a \in DocRegs, m \in {0, 1, 7}}
    \cup {[op |-> o, rd |-> d, rs1 |-> a] :
        o \in R2Ops \ {"Fmv_x_d", "Fmv_d_x"}, d \in DocRegs, a \in DocRegs}
    \cup {[op |-> o, rd |-> d, rs1 |-> a, rs2 |-> b, rs3 |-> c, rm |-> m] :
        o \in FusedOps, d \in {0, 31}, a \in {0, 31}, b \in {0, 31},
        c \in {0, 5, 31}, m \in {0, 7}}

AsmInit == \E r \in DocRecords : InitOf(Case(<< encode(r) >>, 16, WkNone, 96))

AsmSpec == AsmInit /\ [][run_start]_vars

\* C13: a word that decode does not turn into Unknown is the standard
\* encoding of the record decode returns for it.
C13_DecodeEncode ==
    (Decoded /\ decoded.op # "Unknown") => encode(decoded) = the_word

\* C14: the standard encoding of every documented operation, with any
\* fields, decodes to that operation with those fields.
C14_EncodeDecode ==
    Decoded => \A r \in DocRecords : encode(r) = the_word => decoded = r

(***************************************************************************)
(* Division and remainder.                                                 *)
(***************************************************************************)
DivOps == {"Div", "Divu", "Rem", "Remu"}

\* the value instruction `other` with the fields of the fetched one would
\* write to a register in this state
would_write(other) ==
    LET o == CHOOSE o \in exec([op |-> other, rd |-> 7, rs1 |-> fetched.rs1,
                                rs2 |-> fetched.rs2]) : TRUE
    IN  read(o.regs, 7)

Overflows(a, b) == a = INT_MIN /\ b = 0 - 1

\* a / b rounded towards zero, from the magnitudes; b # 0 and not the
\* overflow case
TruncQuot(a, b) ==
    IF b = INT_MIN THEN (IF a = INT_MIN THEN 1 ELSE 0)
    ELSE LET m == IF b < 0 THEN 0 - b ELSE b
             t == IF a = INT_MIN THEN 0 - ((0 - (a + m)) \div m) - 1
                  ELSE IF a < 0 THEN 0 - ((0 - a) \div m)
                  ELSE a \div m
         IN  IF b < 0 THEN 0 - t ELSE t

\* q and r are the quotient and remainder of the u32 values a and b:
\* b * q does not exceed a, and a = b * q + r with r < b
UnsignedQuotRem(a, b, q, r) ==
    /\ mulhu(b, q) = 0
    /\ ~ult(a, wrapping_mul(b, q))
    /\ ult(r, b)
    /\ wrapping_add(wrapping_mul(b, q), r) = a

\* C15: division never aborts.  A zero divisor gives -1 (div, divu) or the
\* dividend (rem, remu); INT_MIN / -1 gives INT_MIN (div) and 0 (rem); every
\* other case gives the quotient rounded towards zero and its remainder, on
\* the unsigned values for divu and remu.
C15_Division ==
    [][ (Executes /\ fetched.op \in DivOps) =>
          LET a   == read(registers, fetched.rs1)
              b   == read(registers, fetched.rs2)
              res == read(registers', fetched.rd)
              want ==
                CASE fetched.op = "Div" ->
                       res = IF b = 0 THEN 0 - 1
                             ELSE IF Overflows(a, b) THEN INT_MIN
                             ELSE TruncQuot(a, b)
                  [] fetched.op = "Rem" ->
                       res = IF b = 0 THEN a
                             ELSE IF Overflows(a, b) THEN 0
                             ELSE a - b * TruncQuot(a, b)
                  [] fetched.op = "Divu" ->
                       IF b = 0 THEN res = 0 - 1
                       ELSE UnsignedQuotRem(a, b, res, would_write("Remu"))
                  [] fetched.op = "Remu" ->
                       IF b = 0 THEN res = a
                       ELSE UnsignedQuotRem(a, b, would_write("Divu"), res)
          IN  /\ status' = "running"
              /\ fetched.rd # 0 => want ]_vars

\* a signed division outside the two special cases has written its result
C15_Witness ==
    /\ last.instr.op \in {"Div", "Rem"}
    /\ last.instr.rd # 0
    /\ read(registers, 6) \notin {0, 0 - 1}
    /\ read(registers, last.instr.rd) < 0
    /\ status = "running"

\* C16: for a signed dividend a and a nonzero divisor b outside the overflow
\* case, the quotient q of div and the remainder r of rem satisfy
\* a = b * q + r, |r| < |b|, and r is zero or has the sign of a.
C16_DivRemIdentity ==
    [][ ( /\ Executes /\ fetched.op \in {"Div", "Rem"} /\ fetched.rd # 0
          /\ read(registers, fetched.rs2) # 0
          /\ ~Overflows(read(registers, fetched.rs1), read(registers, fetched.rs2)) )
        => LET a == read(registers, fetched.rs1)
               b == read(registers, fetched.rs2)
               q == would_write("Div")
               r == would_write("Rem")
           IN  /\ read(registers', fetched.rd) = IF fetched.op = "Div" THEN q ELSE r
               /\ r = 0 \/ (r < 0) = (a < 0)
               /\ IF b = INT_MIN THEN r # INT_MIN
                  ELSE IF b < 0 THEN b < r /\ r < 0 - b
                  ELSE 0 - b < r /\ r < b
               /\ a = b * q + r ]_vars

\* rem has written a negative remainder of a negative dividend
C16_Witness ==
    /\ last.instr.op = "Rem"
    /\ last.instr.rd = 7
    /\ read(registers, 5) < 0
    /\ read(registers, 6) \notin {0, 0 - 1}
    /\ read(registers, 7) < 0
    /\ status = "running"

(***************************************************************************)
(* Jumps and branches.                                                     *)
(***************************************************************************)
\* the target the fetched jal or jalr names, from the state before the step
named_target ==
    IF fetched.op = "Jal" THEN wrapping_add(pc, fetched.imm)
    ELSE LET t == wrapping_add(read(registers, fetched.rs1), fetched.imm)
         IN  t - (t % 2)

CallArms == {"Call_loop", "Call_host", "Call_other"}

\* the link value is in rd and the step went through the Call arm exactly
\* when rd = x1
LinkAndKind ==
    /\ fetched.rd # 0 => read(registers', fetched.rd) = wrapping_add(pc, 4)
    /\ (last'.arm \in CallArms) <=> (fetched.rd = 1)
    /\ last'.arm \in CallArms \cup {"Jump"}
    /\ last'.target = named_target

\* C17 as stated: after every jal or jalr, rd (when not x0) holds pc + 4, pc
\* is the target (pc + imm for jal, (rs1 + imm) with bit 0 cleared for jalr,
\* rs1 read before the link is written), and the step is a Call exactly when
\* rd = x1.
C17_JumpAndLinkAlways ==
    [][ (Executes /\ fetched.op \in {"Jal", "Jalr"} /\ status' # "crashed")
            => (LinkAndKind /\ pc' = named_target) ]_vars

\* C17, as the engine has it: the same, except that a Call whose target is
\* not its own pc and equals an entry of the intercept table runs the host
\* routine and leaves pc at the value of x1, the link pc + 4.
C17_JumpAndLink ==
    [][ (Executes /\ fetched.op \in {"Jal", "Jalr"} /\ status' # "crashed")
            => /\ LinkAndKind
               /\ pc' = IF /\ fetched.rd = 1 /\ named_target # pc
                           /\ intercept(named_target) # "none"
                        THEN wrapping_add(pc, 4)
                        ELSE named_target ]_vars

\* a jalr with rd = rs1 has gone to the target its old rs1 named
C17_Witness ==
    /\ last.instr.op = "Jalr"
    /\ last.instr.rd = last.instr.rs1
    /\ last.instr.rd # 0
    /\ read(registers, last.instr.rd) = wrapping_add(last.pc, 4)
    /\ pc = last.target
    /\ pc # wrapping_add(last.instr.imm, wrapping_add(last.pc, 4))
    /\ status = "running"

BranchOps == {"Beq", "Bne", "Blt", "Bge", "Bltu", "Bgeu"}

\* the u32 value of a is below that of b: upper halves first, then lower
Below(a, b) ==
    hi16(a) < hi16(b) \/ (hi16(a) = hi16(b) /\ lo16(a) < lo16(b))

\* the condition the fetched branch tests, in the state before the step
Condition ==
    LET a == read(registers, fetched.rs1)
        b == read(registers, fetched.rs2)
    IN  CASE fetched.op = "Beq"  -> a = b
          [] fetched.op = "Bne"  -> a # b
          [] fetched.op = "Blt"  -> a < b
          [] fetched.op = "Bge"  -> ~(a < b)
          [] fetched.op = "Bltu" -> Below(a, b)
          [] fetched.op = "Bgeu" -> ~Below(a, b)

\* C18: a branch whose condition holds sets pc to pc + imm modulo 2^32, one
\* whose condition fails sets pc to pc + 4; beq/bne test equality, blt/bge
\* compare signed, bltu/bgeu unsigned; no register and no memory byte changes.
C18_Branch ==
    [][ (Executes /\ fetched.op \in BranchOps)
            => /\ pc' = IF Condition THEN wrapping_add(pc, fetched.imm)
                        ELSE wrapping_add(pc, 4)
               /\ status' = "running"
               /\ UNCHANGED << registers, fp_registers, fcsr, data >> ]_vars

\* bltu was taken on operands that compare the other way as signed values,
\* to an address below zero
C18_Witness ==
    /\ last.instr.op = "Bltu"
    /\ read(registers, last.instr.rs1) = 1
    /\ read(registers, last.instr.rs2) = 0 - 1
    /\ last.instr.imm = 0 - 4096
    /\ pc = wrapping_add(last.pc, last.instr.imm)
    /\ pc < 0

(***************************************************************************)
(* Immediates.                                                             *)
(***************************************************************************)
ITypeOps == {"Jalr", "Lb", "Lh", "Lw", "Lbu", "Lhu", "Flw", "Fld",
             "Addi", "Slti", "Sltiu", "Xori", "Ori", "Andi"}
STypeOps == {"Sb", "Sh", "Sw", "Fsw", "Fsd"}

\* the immediate field of word w in each of the standard layouts, as an
\* unsigned number
field_i(w) == bits(w, 20, 12)
field_s(w) == bits(w, 25, 7) * 32 + bits(w, 7, 5)
field_b(w) ==
    bits(w, 31, 1) * 4096 + bits(w, 7, 1) * 2048 + bits(w, 25, 6) * 32 + bits(w, 8, 4) * 2
field_j(w) ==
    bits(w, 31, 1) * 1048576 + bits(w, 12, 8) * 4096 + bits(w, 20, 1) * 2048
    + bits(w, 21, 10) * 2

\* C19: the decoded immediate is the sign extension of the field bits in the
\* standard layout: I and S immediates lie in [-2048, 2047], B immediates are
\* even in [-4096, 4094], J immediates are even in [-2^20, 2^20 - 2], and U
\* immediates have their low 12 bits zero.
C19_Immediates ==
    Decoded =>
        LET i == decoded
            w == the_word
        IN  /\ i.op \in ITypeOps =>
                (i.imm \in (0 - 2048) .. 2047 /\ i.imm % 4096 = field_i(w))
            /\ i.op \in STypeOps =>
                (i.imm \in (0 - 2048) .. 2047 /\ i.imm % 4096 = field_s(w))
            /\ i.op \in BranchOps =>
                (i.imm \in (0 - 4096) .. 4094 /\ i.imm % 2 = 0
                 /\ i.imm % 8192 = field_b(w))
            /\ i.op = "Jal" =>
                (i.imm \in (0 - 1048576) .. 1048574 /\ i.imm % 2 = 0
                 /\ i.imm % 2097152 = field_j(w))
            /\ i.op \in {"Lui", "Auipc"} =>
                (i.imm % 4096 = 0 /\ i.imm = w - (w % 4096))

\* a branch word with bit 31 set was decoded to a negative immediate
C19_Witness ==
    /\ Decoded
    /\ decoded.op = "Bne"
    /\ the_word < 0
    /\ decoded.imm < 0

(***************************************************************************)
(* Shifts.                                                                 *)
(***************************************************************************)
ShiftRegOps == {"Sll", "Srl", "Sra"}
ShiftImmOps == {"Slli", "Srli", "Srai"}

\* res is a shifted by n places, bit by bit: a left shift and a logical
\* right shift bring in zeros, an arithmetic right shift copies of bit 31
Shifted(kind, a, n, res) ==
    \A k \in 0 .. 31 :
        bits(res, k, 1) =
            CASE kind = "left" -> IF k >= n THEN bits(a, k - n, 1) ELSE 0
              [] kind = "logical" -> IF k + n <= 31 THEN bits(a, k + n, 1) ELSE 0
              [] kind = "arithmetic" ->
                   IF k + n <= 31 THEN bits(a, k + n, 1) ELSE bits(a, 31, 1)

shift_kind(op) ==
    CASE op \in {"Sll", "Slli"} -> "left"
      [] op \in {"Srl", "Srli"} -> "logical"
      [] op \in {"Sra", "Srai"} -> "arithmetic"

\* C20: only the low five bits of a shift amount contribute.  sll, srl and
\* sra write rs1 shifted by rs2 & 0x1f, whatever the upper bits of rs2 are;
\* slli, srli and srai carry a shamt in 0..31 and shift by it; srl and srli
\* fill with zeros, sra and srai replicate the sign bit.
C20_Shifts ==
    [][ /\ (Executes /\ fetched.op \in ShiftRegOps) =>
             /\ status' = "running"
             /\ Shifted(shift_kind(fetched.op), read(registers, fetched.rs1),
                        read(registers, fetched.rs2) % 32, read(registers', fetched.rd))
        /\ (Executes /\ fetched.op \in ShiftImmOps) =>
             /\ status' = "running"
             /\ fetched.shamt \in 0 .. 31
             /\ Shifted(shift_kind(fetched.op), read(registers, fetched.rs1),
                        fetched.shamt, read(registers', fetched.rd)) ]_vars

\* sra shifted a negative value by an amount of 33, that is by one place
C20_Witness ==
    /\ last.instr.op = "Sra"
    /\ read(registers, 6) = 33
    /\ read(registers, 5) = INT_MIN + 1
    /\ read(registers, 7) = 0 - 1073741824
    /\ status = "running"

(***************************************************************************)
(* Loads and stores.                                                       *)
(***************************************************************************)
IntLoads == {"Lb", "Lh", "Lw", "Lbu", "Lhu"}
IntStores == {"Sb", "Sh", "Sw"}

\* a byte as a signed number
Signed8(b) == IF b >= 128 THEN b - 256 ELSE b

\* the value a load of this kind gives for the arena bytes b0 .. b3 at its
\* address, first byte least significant
Loaded(op, b0, b1, b2, b3) ==
    CASE op = "Lb"  -> Signed8(b0)
      [] op = "Lbu" -> b0
      [] op = "Lh"  -> b0 + 256 * Signed8(b1)
      [] op = "Lhu" -> b0 + 256 * b1
      [] op = "Lw"  -> b0 + 256 * b1 + 65536 * b2 + 16777216 * Signed8(b3)

\* the arena byte at a, or 0 where the access does not reach
ByteAt(mem, a, used) == IF used /\ a \in DOMAIN mem THEN mem[a] ELSE 0

\* C21: a typed load at address a = (rs1 + imm) mod 2^32 returns the bytes
\* the arena holds at [a, a + width), which are the bytes most recently
\* stored there, composed little-endian; lb and lh sign-extend, lbu and lhu
\* zero-extend; sb, sh and sw put the low bytes of rs2 there, least
\* significant first.
C21_LoadStore ==
    [][ /\ ( /\ Executes /\ fetched.op \in IntLoads
             /\ status' = "running" /\ fetched.rd # 0 ) =>
               LET a == wrapping_add(read(registers, fetched.rs1), fetched.imm)
                   n == size_of(fetched.op)
               IN  read(registers', fetched.rd) =
                     Loaded(fetched.op, ByteAt(data, a, TRUE), ByteAt(data, a + 1, n > 1),
                            ByteAt(data, a + 2, n > 2), ByteAt(data, a + 3, n > 2))
        /\ (Executes /\ fetched.op \in IntStores /\ status' = "running") =>
               LET a == wrapping_add(read(registers, fetched.rs1), fetched.imm)
                   v == read(registers, fetched.rs2)
               IN  \A i \in 0 .. size_of(fetched.op) - 1 :
                       data'[a + i] = bits(v, 8 * i, 8) ]_vars

\* lh through t2 = -8 has loaded, sign-extended, the two upper bytes of the
\* word 0x80FF7F81 that sw put at 57
C21_Witness ==
    /\ last.instr.op = "Lh"
    /\ read(registers, 7) = 0 - 8
    /\ last.instr.imm = 67
    /\ read(registers, 5) = 0 - 2130739327
    /\ data[59] = 255 /\ data[60] = 128
    /\ read(registers, 6) = 0 - 32513
    /\ status = "running"

(***************************************************************************)
(* Multiplication.                                                         *)
(***************************************************************************)
\* x in three limbs of 11, 11 and 10 bits, least significant first; the top
\* limb carries the sign when x is taken as signed
Limbs(x, signed) ==
    << x % 2048, (x \div 2048) % 2048,
       IF signed THEN x \div 4194304 ELSE (x \div 4194304) % 1024 >>

\* The 64-bit product of a and b, each taken as signed or unsigned, as
\* << low word, high word >> patterns.  Column k of the long multiplication
\* on limbs has weight 2^(11 k); t[k] is the column with the carry from below.
Product(a, sa, b, sb) ==
    LET x == Limbs(a, sa)
        y == Limbs(b, sb)
        c(k) == CASE k = 0 -> x[1] * y[1]
                  [] k = 1 -> x[1] * y[2] + x[2] * y[1]
                  [] k = 2 -> x[1] * y[3] + x[2] * y[2] + x[3] * y[1]
                  [] k = 3 -> x[2] * y[3] + x[3] * y[2]
                  [] k = 4 -> x[3] * y[3]
        t0 == c(0)
        t1 == c(1) + (t0 \div 2048)
        t2 == c(2) + (t1 \div 2048)
        t3 == c(3) + (t2 \div 2048)
        t4 == c(4) + (t3 \div 2048)
        d0 == t0 % 2048
        d1 == t1 % 2048
        d2 == t2 % 2048
        d3 == t3 % 2048
        low == (IF d2 % 1024 >= 512 THEN (d2 % 1024) - 1024 ELSE d2 % 1024) * 4194304
               + d1 * 2048 + d0
        h16 == (t4 \div 16) % 65536
        l16 == (t4 % 16) * 4096 + d3 * 2 + (d2 \div 1024)
        high == (IF h16 >= 32768 THEN h16 - 65536 ELSE h16) * 65536 + l16
    IN  << low, high >>

\* C22: mul writes the low 32 bits of the product; mulh, mulhu and mulhsu
\* write bits 63..32 of the 64-bit product of rs1 and rs2 taken as signed x
\* signed, unsigned x unsigned and signed rs1 x unsigned rs2.
C22_Multiply ==
    [][ (Executes /\ fetched.op \in {"Mul", "Mulh", "Mulhu", "Mulhsu"}) =>
            LET a == read(registers, fetched.rs1)
                b == read(registers, fetched.rs2)
                want == CASE fetched.op = "Mul"    -> Product(a, TRUE, b, TRUE)[1]
                          [] fetched.op = "Mulh"   -> Product(a, TRUE, b, TRUE)[2]
                          [] fetched.op = "Mulhu"  -> Product(a, FALSE, b, FALSE)[2]
                          [] fetched.op = "Mulhsu" -> Product(a, TRUE, b, FALSE)[2]
            IN  /\ status' = "running"
                /\ fetched.rd # 0 => read(registers', fetched.rd) = want ]_vars

\* mulh of -1 and 0xDEADBEEF has written 0, the upper word of the signed
\* product 0x21524111 (mulhu would give 0xDEADBEEE)
C22_Witness ==
    /\ last.instr.op = "Mulh"
    /\ read(registers, 5) = 0 - 1
    /\ read(registers, 6) = 0 - 559038737
    /\ read(registers, 7) = 0
    /\ status = "running"

(***************************************************************************)
(* Sign injection, classification and moves.                               *)
(***************************************************************************)
SignOps == {"Fsgnj_s", "Fsgnjn_s", "Fsgnjx_s", "Fsgnj_d", "Fsgnjn_d", "Fsgnjx_d"}

\* the word of FP register r that holds the sign: the low word of a single,
\* the high word of a double
SignWord(fregs, r, op) ==
    IF op \in {"Fsgnj_s", "Fsgnjn_s", "Fsgnjx_s"} THEN fregs[r].lo ELSE fregs[r].hi

\* the bits of a word below its sign bit
Magnitude(x) == IF x < 0 THEN (x + 2147483647) + 1 ELSE x

\* C23: for every pair of operand patterns, zeros, infinities and NaNs
\* included, the result of fsgnj has the magnitude bits of rs1 and the sign
\* of rs2, fsgnjn the inverted sign of rs2, fsgnjx the exclusive or of the
\* two signs.
C23_SignInjection ==
    [][ (Executes /\ fetched.op \in SignOps) =>
            LET a == SignWord(fp_registers, fetched.rs1, fetched.op)
                b == SignWord(fp_registers, fetched.rs2, fetched.op)
                r == SignWord(fp_registers', fetched.rd, fetched.op)
            IN  /\ Magnitude(r) = Magnitude(a)
                /\ fetched.op \in {"Fsgnj_d", "Fsgnjn_d", "Fsgnjx_d"} =>
                       fp_registers'[fetched.rd].lo = fp_registers[fetched.rs1].lo
                /\ (r < 0) = CASE fetched.op \in {"Fsgnj_s", "Fsgnj_d"} -> b < 0
                               [] fetched.op \in {"Fsgnjn_s", "Fsgnjn_d"} -> ~(b < 0)
                               [] fetched.op \in {"Fsgnjx_s", "Fsgnjx_d"} ->
                                    (a < 0) # (b < 0) ]_vars

\* the sign, the exponent field, whether the fraction is zero and its most
\* significant bit, of the operand of the fetched fclass
ClassParts ==
    LET f == fp_registers[fetched.rs1]
    IN  IF fetched.op = "Fclass_s"
        THEN [sign |-> bits(f.lo, 31, 1), exp |-> bits(f.lo, 23, 8), ones |-> 255,
              zero |-> bits(f.lo, 0, 23) = 0, top |-> bits(f.lo, 22, 1)]
        ELSE [sign |-> bits(f.hi, 31, 1), exp |-> bits(f.hi, 20, 11), ones |-> 2047,
              zero |-> bits(f.hi, 0, 20) = 0 /\ f.lo = 0, top |-> bits(f.hi, 19, 1)]

\* the class of the operand: 0 -inf, 1 -normal, 2 -subnormal, 3 -0, 4 +0,
\* 5 +subnormal, 6 +normal, 7 +inf, 8 signaling NaN, 9 quiet NaN
ClassOf(p) ==
    CASE p.exp = p.ones /\ ~p.zero -> IF p.top = 1 THEN 9 ELSE 8
      [] p.exp = p.ones /\ p.zero  -> IF p.sign = 1 THEN 0 ELSE 7
      [] p.exp = 0 /\ p.zero       -> IF p.sign = 1 THEN 3 ELSE 4
      [] p.exp = 0 /\ ~p.zero      -> IF p.sign = 1 THEN 2 ELSE 5
      [] OTHER                     -> IF p.sign = 1 THEN 1 ELSE 6

\* C24: for every single and double pattern fclass writes a mask with
\* exactly one of bits 0..9 set, the bit of the operand's class in the order
\* -inf, -normal, -subnormal, -0, +0, +subnormal, +normal, +inf, signaling
\* NaN, quiet NaN; a NaN is quiet exactly when its top fraction bit is set.
C24_Classify ==
    [][ (Executes /\ fetched.op \in {"Fclass_s", "Fclass_d"} /\ fetched.rd # 0) =>
            LET mask == read(registers', fetched.rd)
            IN  /\ status' = "running"
                /\ mask \in 1 .. 1023
                /\ Cardinality({k \in 0 .. 9 : bits(mask, k, 1) = 1}) = 1
                /\ bits(mask, ClassOf(ClassParts), 1) = 1 ]_vars

\* fclass.d has called the double 0x7FF00000_00000001, whose fraction is
\* nonzero in the low word only, a signaling NaN
C24_Witness ==
    /\ last.instr.op = "Fclass_d"
    /\ fp_registers[1] = [lo |-> 1, hi |-> 2146435072]
    /\ read(registers, 6) = 256
    /\ status = "running"

\* C25: fmv.w.x followed by fmv.x.w through the same FP register returns the
\* original 32-bit pattern, whatever it is: nothing is converted and no NaN
\* is made canonical.  (The decoder calls fmv.w.x Fmv_w_s and fmv.x.w
\* Fmv_s_w.)
C25_MoveRoundTrip ==
    [][ ( /\ Executes /\ fetched.op = "Fmv_s_w" /\ fetched.rd # 0
          /\ last.instr.op = "Fmv_w_s" /\ last.instr.rd = fetched.rs1 )
            => /\ status' = "running"
               /\ read(registers', fetched.rd) = read(registers, last.instr.rs1) ]_vars

\* the signaling NaN 0x7F800001 has come back from ft3 as it went in
C25_Witness ==
    /\ last.instr.op = "Fmv_s_w"
    /\ last.instr.rs1 = 3
    /\ read(registers, 5) = 2139095041
    /\ read(registers, 6) = 2139095041
    /\ fp_registers[3].lo = 2139095041
    /\ status = "running"

(***************************************************************************)
(* Fatal instructions and the syscalls.                                    *)
(***************************************************************************)
FatalOps == {"Unknown", "Ebreak", "Fmv_x_d", "Fmv_d_x"}

\* C26: dispatching an Unknown record, ebreak, fmv.x.d or fmv.d.x aborts the
\* run: no register and no arena byte changes, pc does not advance, and the
\* run never returns a status afterwards.
C26_FatalInstructions ==
    [][ /\ (Executes /\ fetched.op \in FatalOps) =>
              /\ status' = "panicked"
              /\ UNCHANGED << pc, registers, fp_registers, fcsr, data, return_code,
                              exit_code >>
        /\ status = "panicked" => status' = "panicked" ]_vars

\* a word that no arm of the decoder takes was dispatched and the run is over
C26_Witness ==
    /\ last.instr.op = "Unknown"
    /\ last.instr.val = 0 - 1
    /\ status = "panicked"
    /\ pc = last.pc
    /\ read(registers, A(0)) = 7

\* C27: an ecall whose a7 is not 93, 64 or 63 (brk = 214 included) leaves
\* a0, every other register and every arena byte unchanged and advances pc
\* by 4.
C27_OtherSyscalls ==
    [][ ( /\ Executes /\ fetched.op = "Ecall"
          /\ read(registers, 17) \notin {93, 64, 63} )
            => /\ status' = "running"
               /\ pc' = wrapping_add(pc, 4)
               /\ UNCHANGED << registers, fp_registers, fcsr, data >> ]_vars

\* brk was acknowledged: a0 is as the program set it and pc is past the ecall
C27_Witness ==
    /\ last.instr.op = "Ecall"
    /\ read(registers, 17) = 214
    /\ read(registers, 10) = 1
    /\ pc = last.pc + 4
    /\ status = "running"

\* C28: a write ecall (a7 = 64) leaves every arena byte unchanged and a read
\* ecall (a7 = 63) changes only bytes inside [a1, a1 + a2); both set a0 to
\* the byte count the host returned (at most a2), change no other register,
\* advance pc by 4, and abort when [a1, a1 + a2) is not inside the arena or
\* the host call fails.
C28_ReadWriteSyscalls ==
    [][ ( /\ Executes /\ fetched.op = "Ecall"
          /\ read(registers, 17) \in {64, 63} ) =>
            LET a1 == read(registers, 11)
                a2 == read(registers, 12)
                inside == a1 >= 0 /\ a2 >= 0 /\ a1 <= size - a2
            IN  /\ status' \in {"running", "panicked"}
                /\ ~inside => status' = "panicked"
                /\ status' = "panicked" =>
                       UNCHANGED << pc, registers, fp_registers, fcsr, data >>
                /\ status' = "running" =>
                       /\ pc' = wrapping_add(pc, 4)
                       /\ read(registers', 10) \in 0 .. a2
                       /\ \A r \in 0 .. 31 : r # 10 => registers'[r] = registers[r]
                       /\ UNCHANGED << fp_registers, fcsr >>
                       /\ read(registers, 17) = 64 => data' = data
                       /\ \A b \in DOMAIN data :
                              (b < a1 \/ b >= a1 + a2) => data'[b] = data[b] ]_vars

\* a read of up to three bytes at 48 has delivered two
C28_Witness ==
    /\ last.instr.op = "Ecall"
    /\ read(registers, 17) = 63
    /\ read(registers, 11) = 48 /\ read(registers, 12) = 3
    /\ read(registers, 10) = 2
    /\ data[48] = 104 /\ data[49] = 105 /\ data[50] = 190
    /\ status = "running"

(***************************************************************************)
(* The block intercepts.                                                   *)
(***************************************************************************)
\* [a, a + n) lies inside the arena
Inside(a, n) == a >= 0 /\ n >= 0 /\ a <= size - n

\* [a, a + n) and [b, b + n) have a byte in common
Overlapping(a, b, n) == \E i \in 0 .. n - 1 : \E j \in 0 .. n - 1 : a + i = b + j

\* C29: after an intercepted memmove or memcpy with (dst, src, n) =
\* (a0, a1, a2) inside the arena, byte dst + i equals the byte src + i held
\* before the call, for every i < n (for memmove also when the ranges
\* overlap); after memset byte dst + i is the low 8 bits of a1; no arena byte
\* outside [dst, dst + n) changes.
C29_BlockIntercepts ==
    [][ ( /\ Executes /\ last'.arm = "Call_host"
          /\ last'.host \in {"memset", "memcpy", "memmove"} ) =>
            LET dst == read(registers', 10)
                src == read(registers', 11)
                n   == read(registers', 12)
                h   == last'.host
            IN  ( /\ Inside(dst, n)
                  /\ h # "memset" => Inside(src, n)
                  /\ h = "memcpy" => ~Overlapping(dst, src, n) )
                => /\ status' = "running"
                   /\ \A i \in 0 .. n - 1 :
                          data'[dst + i] = IF h = "memset" THEN bits(src, 0, 8)
                                           ELSE data[src + i]
                   /\ \A b \in DOMAIN data :
                          (b < dst \/ b >= dst + n) => data'[b] = data[b] ]_vars

\* memmove has copied eight bytes from 16 to 18, the destination overlapping
\* the source from above
C29_Witness ==
    /\ last.arm = "Call_host" /\ last.host = "memmove"
    /\ read(registers, 10) = 18 /\ read(registers, 11) = 16 /\ read(registers, 12) = 8
    /\ data[18] = 19 /\ data[19] = 5 /\ data[20] = 32 /\ data[25] = 1
    /\ status = "running"

(***************************************************************************)
(* The exception flags.                                                    *)
(***************************************************************************)
\* C30: the five FCSR exception flags (invalid, divide by zero, overflow,
\* underflow, inexact) are clear in every reachable state: no FP operation,
\* conversion, comparison, frrm or fsrm sets one.
C30_FlagsClear ==
    /\ ~fcsr.nv /\ ~fcsr.dz /\ ~fcsr.of /\ ~fcsr.uf /\ ~fcsr.nx

\* fdiv.s has divided 1 by +0 and written +infinity, the case in which the
\* ISA raises the divide-by-zero flag
C30_Witness ==
    /\ last.instr.op = "Fdiv_s"
    /\ read_u32(fp_registers, 1) = 1065353216
    /\ read_u32(fp_registers, 2) = 0
    /\ read_u32(fp_registers, 6) = 2139095040
    /\ status = "running"
    /\ ~fcsr.dz

(***************************************************************************)
(* The prologue of run.                                                    *)
(***************************************************************************)
\* C31: when run starts, the stack pointer x2 is (size - 128) & ~0xF, size
\* being the arena size; for every size >= 128 it is a multiple of 16 and
\* sp + 128 <= size.
C31_StackPointer ==
    [][ (status = "new" /\ status' = "running") =>
            LET sp == read(registers', Sp)
            IN  /\ sp = bitop32("and", size - 128, 0 - 16)
                /\ size >= 128 => (sp % 16 = 0 /\ sp >= 0 /\ sp + 128 <= size) ]_vars

\* run has started in an arena of 144 bytes with sp = 16
C31_Witness ==
    /\ status = "running" /\ steps = 0
    /\ size = 144 /\ read(registers, Sp) = 16

(***************************************************************************)
(* The ways out of run.                                                    *)
(***************************************************************************)
\* the fetched instruction is an ecall with a7 = 93
ExitCall == fetched.op = "Ecall" /\ read(registers, A(7)) = 93

\* the fetched instruction is a jal or jalr with rd = x1 that names its own pc
SelfCall == fetched.op \in {"Jal", "Jalr"} /\ fetched.rd = 1 /\ named_target = pc

\* C32: run returns a status only when the step just executed was an ecall
\* with a7 = 93 or a jal/jalr with rd = x1 whose target is its own pc; every
\* other step that is not fatal continues the loop.
C32_ReturnsOnlyOnExitOrSelfCall ==
    [][ /\ (status' = "returned" /\ status # "returned") => Executes
        /\ Executes =>
             /\ status' = "returned" => (ExitCall \/ SelfCall)
             /\ (~ExitCall /\ ~SelfCall /\ status' \notin {"panicked", "crashed"})
                   => status' = "running" ]_vars

\* a jalr x1 whose target is its own pc has ended the run
C32_Witness ==
    /\ status = "returned"
    /\ last.instr.op = "Jalr" /\ last.instr.rd = 1 /\ last.target = last.pc
    /\ last.arm = "Call_loop"

(***************************************************************************)
(* The parity of pc.                                                       *)
(***************************************************************************)
\* C33: when the entry pc is even, pc has its low bit zero in every state:
\* no step takes an even pc to an odd one (jalr clears bit 0 of its target,
\* jal and taken branches add even immediates, sequential flow adds 4 and an
\* intercepted call resumes at the call's pc + 4).
C33_PcEven ==
    [][ pc % 2 = 0 => pc' % 2 = 0 ]_vars

\* jalr x6, 23(x5) at an even pc, with x5 = 1, has gone to 24
C33_Witness ==
    /\ last.instr.op = "Jalr" /\ last.instr.rs1 = 5 /\ last.instr.imm = 23
    /\ last.pc % 2 = 0
    /\ pc = 24 /\ status = "running"

(***************************************************************************)
(* What a run can change.                                                  *)
(***************************************************************************)
\* C34: no executed instruction, syscall or intercepted call changes the
\* intercept table, the text segment (its base and the bytes the cache was
\* decoded from) or an instruction-cache record, nor the arena size or an
\* exception flag: only pc, the two register files, the rounding mode and
\* arena bytes change during run.
C34_FixedAfterStart ==
    [][ status # "new" =>
            /\ wk' = wk
            /\ text' = text
            /\ ins_cache' = ins_cache
            /\ size' = size
            /\ fcsr' = [fcsr EXCEPT !.rm = fcsr'.rm] ]_vars

\* an intercepted call has overwritten bytes of the text segment in the
\* arena, and the first cache record is still the instruction loaded there
C34_Witness ==
    /\ last.arm = "Call_host" /\ status = "running"
    /\ \E a \in 0 .. 3 : data[text.vaddr + a] # text.data[a + 1]
    /\ ins_cache[1] = decode(from_le32(SubSeq(text.data, 1, 4)))

(***************************************************************************)
(* The frame of the integer instructions.                                  *)
(***************************************************************************)
\* lui, auipc, the integer loads and the integer ALU instructions
RdWriters ==
    {"Lui", "Auipc", "Lb", "Lh", "Lw", "Lbu", "Lhu",
     "Addi", "Slti", "Sltiu", "Xori", "Ori", "Andi", "Slli", "Srli", "Srai",
     "Add", "Sub", "Sll", "Slt", "Sltu", "Xor", "Srl", "Sra", "Or", "And",
     "Mul", "Mulh", "Mulhsu", "Mulhu", "Div", "Divu", "Rem", "Remu"}

StoreWidth(op) == CASE op = "Sb" -> 1 [] op = "Sh" -> 2 [] op = "Sw" -> 4

\* C35: a successfully executed integer ALU, load, lui or auipc instruction
\* changes only register rd (nothing when rd = x0) and pc, so every other
\* register keeps the value last written to it; a store changes only the 1,
\* 2 or 4 addressed arena bytes and pc.
C35_IntegerFrame ==
    [][ (Executes /\ status' = "running") =>
          /\ fetched.op \in RdWriters =>
               /\ \A i \in 1 .. 31 : i # fetched.rd => registers'[i] = registers[i]
               /\ read(registers', 0) = 0
               /\ data' = data /\ fp_registers' = fp_registers /\ fcsr' = fcsr
               /\ pc' = wrapping_add(pc, 4)
          /\ fetched.op \in {"Sb", "Sh", "Sw"} =>
               LET a == wrapping_add(read(registers, fetched.rs1), fetched.imm)
               IN  /\ registers' = registers
                   /\ fp_registers' = fp_registers /\ fcsr' = fcsr
                   /\ \A b \in DOMAIN data :
                          (b < a \/ b >= a + StoreWidth(fetched.op)) => data'[b] = data[b]
                   /\ pc' = wrapping_add(pc, 4) ]_vars

\* sh has stored the low half of t0 = 0x80FF7F81 at 57 and 58; the byte at 59
\* still is the fill byte
C35_Witness ==
    /\ last.instr.op = "Sh" /\ status = "running"
    /\ read(registers, 5) = 0 - 2130739327
    /\ data[57] = 129 /\ data[58] = 127 /\ data[59] = 190 /\ data[56] = 190

(***************************************************************************)
(* The negated fused operations.                                           *)
(***************************************************************************)
NegatedFused == {"Fnmadd_s", "Fnmsub_s", "Fnmadd_d", "Fnmsub_d"}

\* the integer a value stands for
IntOf(v) == IF v.s THEN 0 - v.m ELSE v.m

\* the value FP register idx holds in regs, read in the precision of op
FusedOperand(regs, op, idx) ==
    IF op \in {"Fnmadd_d", "Fnmsub_d"} THEN double_value(read_double(regs, idx))
    ELSE single_value(read_u32(regs, idx))

\* an integer of magnitude at most 64, on which the product and the sum are
\* exact
SmallInteger(v) == v.k = "int" /\ v.m <= 64

\* C36: fnmadd writes -(rs1 * rs2) - rs3 and fnmsub writes -(rs1 * rs2) + rs3,
\* in the single and in the double precision variant, on small integer
\* operands.
C36_NegatedFused ==
    [][ (Executes /\ fetched.op \in NegatedFused) =>
            LET a == FusedOperand(fp_registers, fetched.op, fetched.rs1)
                b == FusedOperand(fp_registers, fetched.op, fetched.rs2)
                c == FusedOperand(fp_registers, fetched.op, fetched.rs3)
                r == FusedOperand(fp_registers', fetched.op, fetched.rd)
                e == IF fetched.op \in {"Fnmadd_s", "Fnmadd_d"}
                     THEN 0 - (IntOf(a) * IntOf(b)) - IntOf(c)
                     ELSE 0 - (IntOf(a) * IntOf(b)) + IntOf(c)
            IN  (SmallInteger(a) /\ SmallInteger(b) /\ SmallInteger(c))
                    => (r.k = "int" /\ IntOf(r) = e) ]_vars

(***************************************************************************)
(* Registers across an intercepted call.                                   *)
(***************************************************************************)
\* C37: an intercepted memset, memcpy or memmove changes no integer register
\* other than the return-address register the call itself writes: on return
\* a0 still is the destination address, and a1, a2 and sp are unchanged.
C37_InterceptKeepsRegisters ==
    [][ ( /\ Executes /\ last'.arm = "Call_host"
          /\ last'.host \in {"memset", "memcpy", "memmove"} ) =>
            /\ \A i \in 2 .. 31 : registers'[i] = registers[i]
            /\ read(registers', Ra) = wrapping_add(pc, 4)
            /\ read(registers', 0) = 0 ]_vars

\* memcpy has copied 8 bytes from 16 to 60 and come back with a0 = 60,
\* a1 = 16 and a2 = 8
C37_Witness ==
    /\ last.arm = "Call_host" /\ last.host = "memcpy" /\ status = "running"
    /\ read(registers, A(0)) = 60 /\ read(registers, A(1)) = 16
    /\ read(registers, A(2)) = 8
    /\ read(registers, Ra) = wrapping_add(last.pc, 4) /\ pc = read(registers, Ra)
    /\ data[60] = data[16] /\ data[60] # 190

(***************************************************************************)
(* The order of the tests in the Call arm.                                 *)
(***************************************************************************)
InterceptOrder == << "memset", "memcpy", "memmove", "cos", "sin" >>

\* the first routine in the order whose recorded address is t
FirstAt(t) ==
    LET S == {i \in 1 .. 5 : wk[InterceptOrder[i]] = t}
    IN  IF S = {} THEN "none"
        ELSE InterceptOrder[CHOOSE i \in S : \A j \in S : i <= j]

\* C38: the self-call test precedes the intercept matching: a call whose
\* target is its own pc and also a recorded intercept address returns status
\* 0 without running the host routine or changing an arena byte; and when
\* several intercepts share an address, the first in the order memset,
\* memcpy, memmove, cos, sin is the one executed.
C38_SelfCallBeforeIntercepts ==
    [][ (Executes /\ fetched.op \in {"Jal", "Jalr"} /\ fetched.rd = 1) =>
            IF named_target = pc
            THEN /\ status' = "returned" /\ return_code' = 0
                 /\ last'.host = "none" /\ host_calls' = host_calls
                 /\ data' = data /\ fp_registers' = fp_registers
            ELSE last'.host = FirstAt(named_target) ]_vars

\* a call to its own pc, which is also the recorded address of memset, has
\* ended the run with status 0
C38_Witness ==
    /\ last.arm = "Call_loop" /\ status = "returned" /\ return_code = 0
    /\ last.target = last.pc /\ wk.memset = last.pc
    /\ host_calls = 0

(***************************************************************************)
(* A pc that is no multiple of 4.                                          *)
(***************************************************************************)
\* pc is inside the text segment
InText == pc >= text.vaddr /\ pc < text.vaddr + Len(text.data)

\* the word of the segment that holds pc, its first byte at a multiple of 4
\* from the base
EnclosingWord ==
    LET k == (pc - text.vaddr) \div 4
    IN  from_le32(SubSeq(text.data, 4 * k + 1, 4 * k + 4))

\* C39: when pc is inside the text segment but no multiple of 4, the engine
\* does not abort: it executes the cache record at index
\* floor((pc - text_base) / 4), the instruction of the enclosing aligned
\* word, and link values and branch targets are computed from the unaligned
\* pc.
C39_MisalignedFetch ==
    [][ ( /\ status = "running" /\ steps' = steps + 1
          /\ InText /\ pc % 4 # 0 ) =>
            /\ last'.arm # "fetch_outside"
            /\ in_cache
            /\ last'.instr = ins_cache[((pc - text.vaddr) \div 4) + 1]
            /\ last'.instr = decode(EnclosingWord)
            /\ (fetched.op \in {"Jal", "Jalr"} /\ fetched.rd # 0)
                  => read(registers', fetched.rd) = wrapping_add(pc, 4)
            /\ fetched.op = "Jal" => last'.target = wrapping_add(pc, fetched.imm)
            /\ (fetched.op \in BranchOps /\ pc' # wrapping_add(pc, 4))
                  => pc' = wrapping_add(pc, fetched.imm) ]_vars
=============================================================================
